---------------------------- MODULE Spec2Model ----------------------------
(***************************************************************************)
(* A model of trains/storage/helper.py: the StorageHelper facade (path     *)
(* substitution, helper instance cache, upload retry protocol, download    *)
(* to file through a temp file) and the parts of the backend drivers the   *)
(* facade's behaviour depends on.                                          *)
(*                                                                         *)
(* Strings are sequences of one-character strings.  Python's None is the   *)
(* model value None wherever the compared values are strings.              *)
(***************************************************************************)
EXTENDS Integers, Sequences, FiniteSets, TLC

VARIABLES
    os_name,              \* os.name of the running interpreter: "posix" | "nt"
    path_substitutions,   \* StorageHelper._path_substitutions (list of rules)
    canon_url,            \* argument of the last _canonize_url call
    canon_out,            \* its return value
    add_call,             \* the last add_path_substitution call and its outcome
    scheme,               \* self._scheme of the helper the transfers run on
    remote,               \* the backend's objects: object name -> bytes
    stream,               \* the uploaded source: [data, pos, seekable]
    up_op,                \* "upload" | "upload_from_stream"
    up_retries,           \* the retries argument
    up_cb,                \* whether a callback (cb) was given
    up_dest,              \* dest_path
    up_pc,                \* position of the upload call
    up_last_ex,           \* last_ex: 0 for None, else the attempt that raised it
    up_attempts,          \* history: one record per driver call of the loop
    up_cb_calls,          \* history: the arguments the callback was called with
    up_ret,               \* what the call returned or raised
    config,               \* the loaded bucket configurations and installed SDKs
    helpers,              \* StorageHelper._helpers: instance_key -> instance
    instances,            \* history: the helpers constructed so far, by id
    get_last,             \* the last call of get: arguments and outcome
    thread_inc,           \* thread ident -> how many threads have had that ident
    files,                \* the local filesystem: path -> bytes
    now,                  \* time(): the clock, as the number of calls timed
    dl_pc,                \* position of the download_to_file call
    dl_overwrite,         \* overwrite_existing
    dl_delete_on_failure, \* delete_on_failure
    temp_local_path,      \* temp_local_path (NoPath for None)
    dl_obj,               \* obj: the object handle, with the bytes it stands for
    dl_ret,               \* what the call returned or raised
    dl_files0,            \* history: the filesystem when the call began
    dl_failed_at,         \* history: the stage whose exception ended the call
    as_ret,               \* what the last download_as_stream returned or raised,
                          \* kept until the next download_to_file
    as_cause,             \* history: what _get_object met in that call
    container_objects,    \* the names of the objects the helper's container holds
    list_arg,             \* the prefix of the last call of list
    list_ret,             \* what it returned
    conf_folder,          \* folder_uri of the last call of conform_url
    conf_base,            \* its base_url
    conf_ret,             \* what it returned or raised
    helper_scheme,        \* self._scheme of a helper on the local filesystem
    dirs,                 \* the directories that exist, each as its parts
                          \* from the root (<<>>)
    vu_calls,             \* the number of calls of verify_upload so far
    vu_folder,            \* folder_uri of the last call of verify_upload
    vu_ret,               \* what it returned
    vu_prev,              \* history: folder_uri and result of the call before
    vu_dirs0,             \* history: the directories when the last call began
    cw_pc,                \* position of the check_write_permissions call
    cw_dest,              \* whether dest_path was given
    cw_calls,             \* the number of calls of check_write_permissions so far
    marker,               \* whether the backend holds '<base>/.trains.test'
    cw_upload,            \* history: what the backend did with the upload
    cw_delete,            \* history: what the backend did with the delete
    cw_ret,               \* what the call returned or raised
    async_tasks,          \* history: the _UploadData of every async upload, by id
    pool_queue,           \* upload_pool: ids of the tasks waiting for the worker
    pool_current,         \* upload_pool: id of the task the worker runs, 0 if none
    pool_runs,            \* history: what each run of _do_async_upload was given
    pool_results,         \* the AsyncResult of every async upload, by id
    terminate,            \* StorageHelper._terminate (the event is set)
    async_upload_threads, \* StorageHelper._async_upload_threads
    thread_reg,           \* history: the tracked threads in the order of registration
    thread_work,          \* thread -> the time it still runs (0: it has ended)
    tu_pc,                \* position of the terminate_uploads call
    tu_force,             \* its argument force
    tu_timeout,           \* its argument timeout
    remaining_timeout,    \* its local remaining_timeout
    tu_todo,              \* the threads its loop has not reached yet
    tu_joins,             \* history: thread, timeout and duration of each join
    st_closed,            \* _Stream.closed
    st_buffer,            \* _Stream._buffer: the queued chunks
    st_iter,              \* _Stream._input_iterator: the chunks it still yields
    st_leftover,          \* _Stream._leftover
    st_written,           \* history: the bytes written so far, in write order
    wr_count,             \* the number of writes so far
    st_drained,           \* history: the stream was closed and drained once
    rd_pc,                \* position of the consumer's read call
    rd_size,              \* its argument size
    rd_data,              \* its local data
    rd_start,             \* history: _leftover and st_drained when it began
    rd_log,               \* history: size, result and circumstances of each read
    containers,           \* the driver's _containers: name -> container (0: none)
    gc_pc,                \* thread -> position of its get_container call
    gc_name,              \* thread -> its argument container_name
    gc_new,               \* thread -> the container it has constructed
    gc_ret,               \* thread -> what its last call returned
    gc_made,              \* history: the name of every container constructed
    gc_retries,           \* thread -> the retries its helper was constructed with
    gc_config,            \* container -> its config.retries (0: not set yet)
    rc_local,             \* who put the file at local_path there ("none": no file)
    rc_pc,                \* thread -> position of its download_to_file call
    rc_overwrite,         \* thread -> its argument overwrite_existing
    rc_temp,              \* thread -> whether its temp file exists
    rc_ret                \* thread -> what its call returned

canonVars == <<path_substitutions, canon_url, canon_out, add_call>>

uploadVars == <<stream, up_op, up_retries, up_cb, up_dest, up_pc, up_last_ex,
                up_attempts, up_cb_calls, up_ret>>

getVars == <<config, helpers, instances, get_last, thread_inc>>

downloadVars == <<files, now, dl_pc, dl_overwrite, dl_delete_on_failure,
                  temp_local_path, dl_obj, dl_ret, dl_files0, dl_failed_at>>

streamVars == <<as_ret, as_cause>>

listVars == <<container_objects, list_arg, list_ret>>

conformVars == <<conf_folder, conf_base, conf_ret>>

verifyVars == <<helper_scheme, dirs, vu_calls, vu_folder, vu_ret, vu_prev, vu_dirs0>>

checkVars == <<cw_pc, cw_dest, cw_calls, marker, cw_upload, cw_delete, cw_ret>>

asyncVars == <<async_tasks, pool_queue, pool_current, pool_runs, pool_results>>

terminateVars == <<terminate, async_upload_threads, thread_reg, thread_work, tu_pc,
                   tu_force, tu_timeout, remaining_timeout, tu_todo, tu_joins>>

pipeVars == <<st_closed, st_buffer, st_iter, st_leftover, st_written, wr_count,
              st_drained, rd_pc, rd_size, rd_data, rd_start, rd_log>>

containerVars == <<containers, gc_pc, gc_name, gc_new, gc_ret, gc_made, gc_retries,
                   gc_config>>

raceVars == <<rc_local, rc_pc, rc_overwrite, rc_temp, rc_ret>>

extVars == <<asyncVars, terminateVars, pipeVars, containerVars, raceVars>>

auxVars == <<listVars, conformVars, verifyVars, checkVars, extVars>>

vars == <<os_name, path_substitutions, canon_url, canon_out, add_call, scheme, remote,
          stream, up_op, up_retries, up_cb, up_dest, up_pc, up_last_ex,
          up_attempts, up_cb_calls, up_ret, config, helpers, instances, get_last,
          thread_inc,
          files, now, dl_pc, dl_overwrite, dl_delete_on_failure,
          temp_local_path, dl_obj, dl_ret, dl_files0, dl_failed_at,
          as_ret, as_cause, container_objects, list_arg, list_ret,
          conf_folder, conf_base, conf_ret,
          helper_scheme, dirs, vu_calls, vu_folder, vu_ret, vu_prev, vu_dirs0,
          cw_pc, cw_dest, cw_calls, marker, cw_upload, cw_delete, cw_ret,
          async_tasks, pool_queue, pool_current, pool_runs, pool_results,
          terminate, async_upload_threads, thread_reg, thread_work, tu_pc,
          tu_force, tu_timeout, remaining_timeout, tu_todo, tu_joins,
          st_closed, st_buffer, st_iter, st_leftover, st_written, wr_count,
          st_drained, rd_pc, rd_size, rd_data, rd_start, rd_log,
          containers, gc_pc, gc_name, gc_new, gc_ret, gc_made, gc_retries, gc_config,
          rc_local, rc_pc, rc_overwrite, rc_temp, rc_ret>>

None == "None"

Max(a, b) == IF a >= b THEN a ELSE b

Min(S) == CHOOSE x \in S : \A y \in S : x <= y

(***************************************************************************)
(* Bounds of the model.                                                    *)
(***************************************************************************)
MaxRules == 2

MaxUrlLen == 2

(***************************************************************************)
(* Strings.                                                                *)
(***************************************************************************)
Chars == {"a", "/", "\\"}

RECURSIVE StringsOfLen(_)
StringsOfLen(n) ==
    IF n = 0 THEN {<<>>}
    ELSE {Append(s, c) : s \in StringsOfLen(n - 1), c \in Chars}

StringsUpTo(n) == UNION {StringsOfLen(k) : k \in 0..n}

\* str.startswith
StartsWith(s, p) ==
    /\ Len(p) <= Len(s)
    /\ SubSeq(s, 1, Len(p)) = p

\* s[where:]
StrFrom(s, where) == SubSeq(s, where + 1, Len(s))

\* s[:where]
StrUpTo(s, where) == SubSeq(s, 1, IF where <= Len(s) THEN where ELSE Len(s))

\* The 1-based positions at which old occurs in s.
Occurrences(s, old) ==
    {i \in 1..(Len(s) - Len(old) + 1) : SubSeq(s, i, i + Len(old) - 1) = old}

\* s.replace(old, new, 1): the leftmost occurrence of old is replaced
StrReplaceFirst(s, old, new) ==
    IF Occurrences(s, old) = {} THEN s
    ELSE LET i == Min(Occurrences(s, old))
         IN  SubSeq(s, 1, i - 1) \o new \o SubSeq(s, i + Len(old), Len(s))

\* s.replace(sep, rep) for a one-character sep
StrReplaceAll(s, sep, rep) ==
    [k \in 1..Len(s) |-> IF s[k] = sep THEN rep ELSE s[k]]

\* os.sep
OsSep(name) == IF name = "posix" THEN "/" ELSE "\\"

OsNames == {"posix", "nt"}

(***************************************************************************)
(* Path substitution rules.                                                *)
(***************************************************************************)
\* A prefix that is None in the configuration file.
NoPrefix == <<"<None>">>

PathSubstitutionRule(reg, loc, win, lin) ==
    [registered_prefix |-> reg, local_prefix |-> loc,
     replace_windows_sep |-> win, replace_linux_sep |-> lin]

\* _PathSubstitutionRule.load_list_from_config: entries with a None prefix
\* or with both separator flags are skipped, the rest kept in order.
RECURSIVE load_list_from_config(_)
load_list_from_config(cfg) ==
    IF cfg = <<>> THEN <<>>
    ELSE LET rule == Head(cfg)
             rest == load_list_from_config(Tail(cfg))
         IN  IF rule.registered_prefix = NoPrefix \/ rule.local_prefix = NoPrefix
             THEN rest
             ELSE IF rule.replace_windows_sep /\ rule.replace_linux_sep
             THEN rest
             ELSE <<rule>> \o rest

\* The 'storage.path_substitution' sections the model starts from.
ConfigLists ==
    { <<>>,
      << PathSubstitutionRule(NoPrefix, <<"a">>, FALSE, FALSE) >>,
      << PathSubstitutionRule(<<"a">>, <<"a", "a">>, TRUE, TRUE) >>,
      << PathSubstitutionRule(<<>>, <<"/">>, FALSE, TRUE) >>,
      << PathSubstitutionRule(<<"\\">>, <<"/", "\\">>, TRUE, FALSE) >>,
      << PathSubstitutionRule(<<"a", "/">>, <<"a">>, FALSE, TRUE) >> }

\* The prefixes callers register with add_path_substitution.
RegisteredPrefixes == { <<>>, <<"a">> }

LocalPrefixes == { <<>>, <<"a", "a">>, <<"/", "\\">> }

\* replace_separator, local to _apply_url_substitutions
replace_separator_whole(url, where, sep, ossep) ==
    StrReplaceAll(url, sep, ossep)

replace_separator(url, where, sep, ossep) ==
    StrUpTo(url, where) \o StrReplaceAll(StrFrom(url, where), sep, ossep)

\* The body of the loop of _apply_url_substitutions for a matching rule.
apply_rule(rule, url, ossep) ==
    LET u1 == StrReplaceFirst(url, rule.registered_prefix, rule.local_prefix)
        u2 == IF rule.replace_windows_sep
              THEN replace_separator(u1, Len(rule.local_prefix), "\\", ossep)
              ELSE u1
        u3 == IF rule.replace_linux_sep
              THEN replace_separator(u2, Len(rule.local_prefix), "/", ossep)
              ELSE u2
    IN  u3

\* The loop without its break: later rules see the substituted url.
RECURSIVE apply_from_no_break(_, _, _, _)
apply_from_no_break(rules, url, i, ossep) ==
    IF i > Len(rules) THEN url
    ELSE IF StartsWith(url, rules[i].registered_prefix)
    THEN apply_from_no_break(rules, apply_rule(rules[i], url, ossep), i + 1, ossep)
    ELSE apply_from_no_break(rules, url, i + 1, ossep)

\* The loop of _apply_url_substitutions from rule i on: the first rule whose
\* registered_prefix the url starts with is applied, then the loop breaks.
RECURSIVE apply_from(_, _, _, _)
apply_from(rules, url, i, ossep) ==
    IF i > Len(rules) THEN url
    ELSE IF StartsWith(url, rules[i].registered_prefix)
    THEN apply_rule(rules[i], url, ossep)
    ELSE apply_from(rules, url, i + 1, ossep)

apply_url_substitutions(rules, url, ossep) == apply_from(rules, url, 1, ossep)

canonize_url(rules, url, ossep) == apply_url_substitutions(rules, url, ossep)

(***************************************************************************)
(* Uploads: data and the drivers' upload calls.                            *)
(***************************************************************************)
MaxBytes == 2

MaxRetries == 3

Bytes == {"x", "y"}

RECURSIVE BytesOfLen(_)
BytesOfLen(n) ==
    IF n = 0 THEN {<<>>}
    ELSE {Append(s, c) : s \in BytesOfLen(n - 1), c \in Bytes}

ByteStrings == UNION {BytesOfLen(k) : k \in 0..MaxBytes}

\* _Boto3Driver.scheme, _GoogleCloudStorageDriver.scheme,
\* _AzureBlobServiceStorageDriver.scheme, _HttpDriver.schemes and
\* _FileStorageDriver.scheme (https behaves as http and is not listed apart)
Schemes == {"s3", "gs", "azure", "http", "file"}

\* The content of an object name the backend holds no object for.
NoObject == <<"<no object>">>

\* The object every transfer of the model addresses.
DestPath == <<"a", "/", "a">>

\* What the callback is called with besides the destination url.
CbNone == <<"<None>">>

CbFalse == <<"<False>">>

NoReturn == [kind |-> "none", value |-> <<>>, ex |-> 0]

Returned(v) == [kind |-> "returned", value |-> v, ex |-> 0]

Raised(e) == [kind |-> "raised", value |-> <<>>, ex |-> e]

\* range(max(1, retries)): the number of passes of the retry loop
upload_loop_range_unclamped(retries) == retries

upload_loop_range(retries) == Max(1, retries)

\* upload_object / upload_object_via_stream of the s3, gs and azure drivers
\* catch every exception of the transfer, log it and return False (or None);
\* the http and file drivers let it propagate.
driver_swallows_upload_error(sch) == sch \in {"s3", "gs", "azure"}

\* The bytes an attempt hands to the backend: upload_object reads the source
\* file whole, upload_object_via_stream reads the stream from its position.
upload_payload(op, st) ==
    IF op = "upload" THEN st.data ELSE StrFrom(st.data, st.pos)

\* Whether the backend can store the payload at all.  The azure driver turns
\* the stream into bytes(iterator), which raises TypeError for a file-like
\* stream that still yields a chunk, so only an exhausted stream gets through.
driver_can_store(sch, op, st) ==
    (sch = "azure" /\ op = "upload_from_stream") => upload_payload(op, st) = <<>>

\* The backend's objects after an attempt.  A stored object holds the
\* payload.  The file driver opens the object for writing before it reads the
\* source, so its failed attempt may leave a truncated object behind.
remote_after_attempt(rem, sch, outcome, payload) ==
    IF outcome = "stored" THEN [rem EXCEPT ![DestPath] = payload]
    ELSE IF outcome = "failed_truncated" THEN [rem EXCEPT ![DestPath] = <<>>]
    ELSE rem

AttemptOutcomes(sch, op, st) ==
    (IF driver_can_store(sch, op, st) THEN {"stored"} ELSE {})
        \cup {"failed"}
        \cup (IF sch = "file" THEN {"failed_truncated"} ELSE {})

\* stream.seek(0) in the except branch of upload_from_stream; a stream that
\* cannot seek raises, which is ignored.
seek_to_beginning(st) ==
    IF st.seekable THEN [st EXCEPT !.pos = 0] ELSE st

UploadIdle ==
    /\ stream = [data |-> <<>>, pos |-> 0, seekable |-> TRUE]
    /\ up_op = "upload"
    /\ up_retries = 1
    /\ up_cb = FALSE
    /\ up_dest = DestPath
    /\ up_pc = "idle"
    /\ up_last_ex = 0
    /\ up_attempts = <<>>
    /\ up_cb_calls = <<>>
    /\ up_ret = NoReturn

(***************************************************************************)
(* Helper instances: configuration, base url, construction.                *)
(***************************************************************************)
MaxHelpers == 2

\* threading.current_thread().ident of the calling threads
Threads == {1, 2}

Url(sch, netloc, path) == [scheme |-> sch, netloc |-> netloc, path |-> path]

\* The urls get is called with; urlparse splits them as written here.
GetUrls ==
    { Url("s3", "b1", "x"), Url("s3", "b1", "y"), Url("s3", "b2", "x"),
      Url("azure", "acc", "x"), Url("gs", "g1", "x"),
      Url("http", "h", "x"), Url("file", "", "x") }

\* The environments the process runs in: whether credentials are configured
\* for s3 (key and secret) and azure (a container configuration, with account
\* name and key), whether the backend SDKs can be imported, and whether the
\* local base folder can be used.
Configs ==
    { [s3_key |-> k, azure |-> a, sdk |-> l, local_dir |-> d] :
        k \in BOOLEAN, a \in {"missing", "no_key", "ok"}, l \in BOOLEAN, d \in BOOLEAN }

\* S3BucketConfigurations.get_config_by_uri: the configuration of the url's
\* bucket, or the default one for that bucket; never None.
s3_get_config_by_uri(cfg, url) ==
    [host |-> "", bucket |-> url.netloc, key |-> cfg.s3_key, secret |-> cfg.s3_key]

\* GSBucketConfigurations.get_config_by_uri: as for s3.
gs_get_config_by_uri(cfg, url) == [bucket |-> url.netloc]

\* AzureContainerConfigurations.get_config_by_uri: the configuration of the
\* url's container, or None when none is configured.
azure_get_config_by_uri(cfg, url) ==
    IF cfg.azure = "missing" THEN [found |-> FALSE, container_name |-> "", account_key |-> FALSE]
    ELSE [found |-> TRUE, container_name |-> "c1", account_key |-> cfg.azure = "ok"]

\* '/'.join(x for x in parts if x), kept as the list of joined parts
JoinNonEmpty(parts) == SelectSeq(parts, LAMBDA x : x # "")

RaisedBaseUrl == <<"<raised>">>

\* _resolve_base_url: RaisedBaseUrl stands for the StorageError it raises
\* when no azure configuration is found.
resolve_base_url(cfg, url) ==
    IF url.scheme = "s3"
    THEN LET conf   == s3_get_config_by_uri(cfg, url)
             bucket == IF conf.bucket # "" THEN conf.bucket ELSE url.path
         IN  JoinNonEmpty(<<"s3:/", conf.host, bucket>>)
    ELSE IF url.scheme = "azure"
    THEN LET conf == azure_get_config_by_uri(cfg, url)
         IN  IF ~conf.found THEN RaisedBaseUrl
             ELSE <<"azure://", url.netloc, conf.container_name>>
    ELSE IF url.scheme = "gs"
    THEN <<"gs://", gs_get_config_by_uri(cfg, url).bucket>>
    ELSE IF url.scheme = "http" THEN <<"http://">>
    ELSE IF url.scheme = "https" THEN <<"https://">>
    ELSE <<"file://">>

\* Whether StorageHelper.__init__ raises: a missing azure configuration or
\* account key, a missing s3 key or secret, an SDK that cannot be imported
\* when the driver creates its container, a local base path that cannot be
\* created or is no directory.
init_raises(cfg, url) ==
    IF url.scheme = "azure"
    THEN LET conf == azure_get_config_by_uri(cfg, url)
         IN  ~conf.found \/ ~conf.account_key \/ ~cfg.sdk
    ELSE IF url.scheme = "s3"
    THEN LET conf == s3_get_config_by_uri(cfg, url)
         IN  ~conf.key \/ ~conf.secret \/ ~cfg.sdk
    ELSE IF url.scheme = "gs" THEN ~cfg.sdk
    ELSE IF url.scheme \in {"http", "https"} THEN FALSE
    ELSE ~cfg.local_dir

\* instance_key without the thread's ident.
instance_key_shared(base_url, thread) == [base_url |-> base_url, thread |-> 0]

\* instance_key = '%s_%s' % (base_url, ident): the ident is the run of digits
\* after the last underscore, so the pair determines the key and the key the
\* pair.
instance_key(base_url, thread) == [base_url |-> base_url, thread |-> thread]

\* (instance_key in cls._helpers) and (not force_create)
cache_hit_never(h, key, force_create) == FALSE

cache_hit(h, key, force_create) == key \in DOMAIN h /\ ~force_create

\* The thread ident is reused: thread_inc counts the threads that have had it.
MaxIncarnations == 2

\* The key and secret a caller hands to get as keyword arguments; None when
\* it hands none.
ExplicitCredentials == {"k1", "k2"}

\* 'key=key or self._conf.key, secret=secret or self._conf.secret' followed by
\* 'if not self._conf.key or not self._conf.secret: raise': credentials given
\* to the call stand in for those the configuration lacks.
conf_update(cfg, creds) == [cfg EXCEPT !.s3_key = @ \/ creds # None]

NoCall == [called |-> FALSE, thread |-> 0, url |-> Url("", "", ""), force |-> FALSE,
           creds |-> None, key |-> instance_key(<<>>, 0), ret |-> "None", id |-> 0,
           constructed |-> FALSE, inc |-> 0]

GetCall(thread, url, force, creds, key, ret, id, constructed) ==
    [called |-> TRUE, thread |-> thread, url |-> url, force |-> force,
     creds |-> creds, key |-> key, ret |-> ret, id |-> id,
     constructed |-> constructed, inc |-> thread_inc[thread]]

GetIdle ==
    /\ config = [s3_key |-> TRUE, azure |-> "ok", sdk |-> TRUE, local_dir |-> TRUE]
    /\ helpers = <<>>
    /\ instances = <<>>
    /\ get_last = NoCall
    /\ thread_inc = [t \in Threads |-> 1]

(***************************************************************************)
(* Downloads: the local filesystem and download_to_file.                   *)
(***************************************************************************)
MaxTime == 2

\* local_path, its siblings '{local_path}_{time()}.partially', and the path
\* the file driver gives direct access to
LocalPath == [kind |-> "local_path", ts |-> 0]

TempPath(t) == [kind |-> "partially", ts |-> t]

DirectPath == [kind |-> "direct", ts |-> 0]

NoPath == [kind |-> "None", ts |-> 0]

Paths == {LocalPath} \cup {TempPath(t) : t \in 1..MaxTime}

\* The content of a path that is no file.
NoFile == <<"<no file>">>

NoObj == [found |-> FALSE, data |-> NoObject]

DlNoReturn == [kind |-> "none", path |-> NoPath]

DlPath(p) == [kind |-> "path", path |-> p]

DlNone == [kind |-> "None", path |-> NoPath]

DlDownloadError == [kind |-> "DownloadError", path |-> NoPath]

\* A driver none of whose objects is a local file.
get_direct_access_none(sch) == NoPath

\* _FileStorageDriver.get_direct_access returns the local path of the object
\* (never an empty one); the other drivers return None.
get_direct_access(sch) == IF sch = "file" THEN DirectPath ELSE NoPath

\* What _get_object can do.  It raises DownloadError on a ConnectionError of
\* the driver and returns None on any other exception; the http and azure
\* drivers ask the backend for the object and raise when it has none, the s3
\* and gs drivers build a handle without asking.
get_object_outcomes(sch, rem) ==
    {"connection_error", "error"}
        \cup (IF rem[DestPath] # NoObject \/ sch \in {"s3", "gs"} THEN {"ok"} ELSE {})

\* download_to_file downloads although the file is there.
skip_existing_never(overwrite_existing, is_file) == FALSE

\* 'not overwrite_existing and Path(local_path).is_file()'
skip_existing(overwrite_existing, is_file) == ~overwrite_existing /\ is_file

\* A size check that lets every file through.
size_check_never_fails(size) == FALSE

\* 'Path(temp_local_path).stat().st_size <= 0'
size_check_fails(size) == size <= 0

\* The path download_to_file hands to the driver's download_object.
download_target_local(temp, local) == local

download_target(temp, local) == temp

\* _get_object turns every exception of the driver into a None.
get_object_raises_never(outcome) == FALSE

\* _get_object: 'except ConnectionError as ex: raise DownloadError'
get_object_raises(outcome) == outcome = "connection_error"

\* What download_as_stream gives back: a sequence of chunks (Broken stands
\* for one that raises when it is read), None, or a DownloadError.
Broken == <<"<raises when read>">>

AsNoReturn == [kind |-> "none", data |-> <<>>]

AsStream(d) == [kind |-> "stream", data |-> d]

AsNone == [kind |-> "None", data |-> <<>>]

AsDownloadError == [kind |-> "DownloadError", data |-> <<>>]

AsRaised == [kind |-> "raised", data |-> <<>>]

\* The drivers' download_object_as_stream(obj, chunk_size); obj is NoObj for
\* None.  The http and s3 drivers raise AttributeError on None; the s3 driver
\* returns a _Stream that its worker closes empty when the backend holds no
\* such object; the gs driver always raises NotImplementedError; the azure
\* driver raises AttributeError (its container has no blob_name); the file
\* driver's is a generator function: the call runs none of its body and
\* returns a generator, which raises when read if obj is None.
download_object_as_stream(sch, obj) ==
    CASE sch = "file" -> AsStream(IF obj.found THEN obj.data ELSE Broken)
      [] sch \in {"gs", "azure"} -> AsRaised
      [] OTHER -> IF obj.found
                  THEN AsStream(IF obj.data = NoObject THEN <<>> ELSE obj.data)
                  ELSE AsRaised

DownloadIdle ==
    /\ as_ret = AsNoReturn
    /\ as_cause = "not called"
    /\ files = [p \in Paths |-> NoFile]
    /\ now = 0
    /\ dl_pc = "idle"
    /\ dl_overwrite = FALSE
    /\ dl_delete_on_failure = TRUE
    /\ temp_local_path = NoPath
    /\ dl_obj = NoObj
    /\ dl_ret = DlNoReturn
    /\ dl_files0 = [p \in Paths |-> NoFile]
    /\ dl_failed_at = "none"

(***************************************************************************)
(* Listing: the names in the helper's container and list(prefix).          *)
(***************************************************************************)
MaxNameLen == 2

MaxObjects == 2

\* The helper's base url, one character long in the model; object names are
\* made of the other characters.
BaseUrl == <<"b">>

RECURSIVE NamesOfLen(_)
NamesOfLen(n) ==
    IF n = 0 THEN {<<>>}
    ELSE {Append(w, c) : w \in NamesOfLen(n - 1), c \in {"a", "/"}}

ObjectNames == UNION {NamesOfLen(n) : n \in 1..MaxNameLen}

\* The prefixes list is called with: empty, relative to the base url, or
\* urls under the base url.
ListPrefixes ==
    {<<>>} \cup ObjectNames \cup {BaseUrl \o w : w \in ObjectNames \cup {<<>>}}

\* str.lstrip(c)
RECURSIVE LStrip(_, _)
LStrip(s, c) == IF s # <<>> /\ Head(s) = c THEN LStrip(Tail(s), c) ELSE s

\* list: 'if prefix.startswith(self._base_url):
\*            prefix = prefix[len(self.base_url):].lstrip("/")'
list_strip_base_url(base_url, prefix) ==
    IF StartsWith(prefix, base_url)
    THEN LStrip(StrFrom(prefix, Len(base_url)), "/")
    ELSE prefix

\* The drivers' list_container_objects(container, ex_prefix=prefix): the s3
\* and azure drivers ask the backend for the names with the prefix (for all
\* names if it is empty), the gs and file drivers take ex_prefix among their
\* keyword arguments and return every name.
list_container_objects(sch, objs, ex_prefix) ==
    IF sch \in {"s3", "azure"} /\ ex_prefix # <<>>
    THEN {n \in objs : StartsWith(n, ex_prefix)}
    ELSE objs

\* A filter that lets the prefix itself through.
list_filter_keep_prefix(names, prefix) == {n \in names : StartsWith(n, prefix)}

\* 'obj.name.startswith(prefix) and obj.name != prefix'
list_filter(names, prefix) == {n \in names : StartsWith(n, prefix) /\ n # prefix}

ListNotCalled == [kind |-> "none", names |-> {}]

ListReturned(names) == [kind |-> "names", names |-> names]

ListRaised == [kind |-> "raised", names |-> {}]

\* StorageHelper.list(prefix); the http driver's list_container_objects
\* raises NotImplementedError.
list(sch, base_url, objs, prefix) ==
    IF sch = "http" THEN ListRaised
    ELSE IF prefix # <<>>
    THEN LET px == list_strip_base_url(base_url, prefix)
         IN  ListReturned(list_filter(list_container_objects(sch, objs, px), px))
    ELSE ListReturned(objs)

ListIdle ==
    /\ container_objects = {}
    /\ list_arg = <<>>
    /\ list_ret = ListNotCalled

(***************************************************************************)
(* conform_url.                                                            *)
(***************************************************************************)
\* 'file://', and the base urls of a bucket and of the http driver
FileBase == <<"f", "i", "l", "e", ":", "/", "/">>

S3Base == <<"s", "3", ":", "/", "/", "b">>

HttpBase == <<"h", "t", "t", "p", ":", "/", "/">>

BaseUrls == {FileBase, S3Base, HttpBase}

\* The folders conform_url is called with: empty, paths, urls under a base.
FolderUris ==
    {<<>>} \cup ObjectNames \cup {b \o w : b \in BaseUrls, w \in ObjectNames \cup {<<>>}}

\* The current directory, on posix and on nt.
Cwd(name) == IF name = "posix" THEN <<"/", "w">> ELSE <<"C", ":", "\\", "w">>

\* The parts of a path between its slashes.
RECURSIVE PathParts(_)
PathParts(path) ==
    IF path = <<>> THEN <<>>
    ELSE IF Head(path) = "/" THEN PathParts(Tail(path))
    ELSE LET stops == {k \in 1..Len(path) : path[k] = "/"}
             k     == IF stops = {} THEN Len(path) + 1 ELSE Min(stops)
         IN  <<SubSeq(path, 1, k - 1)>> \o PathParts(SubSeq(path, k, Len(path)))

RECURSIVE JoinParts(_, _)
JoinParts(parts, sep) ==
    IF parts = <<>> THEN <<>>
    ELSE IF Len(parts) = 1 THEN parts[1]
    ELSE parts[1] \o <<sep>> \o JoinParts(Tail(parts), sep)

\* str(Path(path).absolute()): pathlib drops empty parts and a trailing
\* slash, keeps a root (one slash, or exactly two leading ones, on posix; the
\* drive of the current directory on nt, where UNC paths are left out), and
\* puts the current directory before a relative path.
path_absolute(name, path) ==
    LET parts == PathParts(path)
        two   == Len(path) >= 2 /\ path[1] = "/" /\ path[2] = "/"
                   /\ (Len(path) >= 3 => path[3] # "/")
    IN  IF name = "posix"
        THEN IF StartsWith(path, <<"/">>)
             THEN (IF two THEN <<"/", "/">> ELSE <<"/">>) \o JoinParts(parts, "/")
             ELSE JoinParts(<<Cwd(name)>> \o parts, "/")
        ELSE IF StartsWith(path, <<"/">>)
             THEN JoinParts(<<<<"C", ":">>>> \o (IF parts = <<>> THEN <<<<>>>> ELSE parts), "\\")
             ELSE JoinParts(<<Cwd(name)>> \o parts, "\\")

ConfNotCalled == [kind |-> "none", url |-> <<>>]

ConfReturned(url) == [kind |-> "url", url |-> url]

ConfValueError == [kind |-> "ValueError", url |-> <<>>]

\* Every base url is taken for 'file://'.
base_is_file_always(base_url) == TRUE

\* "_base_url == 'file://'"
base_is_file(base_url) == base_url = FileBase

\* conform_url(folder_uri, base_url) with a base_url that is given
conform_url(name, folder_uri, base_url) ==
    IF folder_uri = <<>> THEN ConfReturned(folder_uri)
    ELSE IF StartsWith(folder_uri, base_url) THEN ConfReturned(folder_uri)
    ELSE IF base_is_file(base_url)
    THEN LET abs == path_absolute(name, folder_uri)
         IN  IF StartsWith(abs, <<"/">>)
             THEN ConfReturned(base_url \o abs)
             ELSE ConfReturned(base_url \o <<"/">> \o abs)
    ELSE ConfValueError

ConformIdle ==
    /\ conf_folder = <<>>
    /\ conf_base = <<>>
    /\ conf_ret = ConfNotCalled

(***************************************************************************)
(* verify_upload on a helper of the local filesystem.                      *)
(***************************************************************************)
MaxCalls == 2

\* urlparse(url).scheme of the url the helper was made from: 'file' for a
\* file:// url, '' for a bare local path.
HelperSchemes == {"file", ""}

\* _normalize_object_name(path)
normalize_object_name(name, sch, base_url, path) ==
    LET p1 == IF StartsWith(path, base_url)
              THEN LET cut == StrFrom(path, Len(base_url))
                   IN  IF StartsWith(cut, <<"/">>) /\ name = "nt" THEN Tail(cut) ELSE cut
              ELSE path
    IN  IF sch \in {"s3", "gs", "azure"} THEN LStrip(p1, "/") ELSE p1

\* The directory a path names, as its parts from the root.
DirOf(name, path) ==
    IF StartsWith(path, <<"/">>) THEN PathParts(path)
    ELSE PathParts(Cwd(name)) \o PathParts(path)

\* Path(test_path).mkdir(parents=True, exist_ok=True): the directory and
\* those above it.
mkdir_parents(ds, dir) == ds \cup {SubSeq(dir, 1, k) : k \in 0..Len(dir)}

\* verify_upload takes every helper of the local filesystem for a file one.
verify_is_file_always(sch) == TRUE

\* verify_upload: "elif self._scheme == 'file'"
verify_is_file(sch) == sch = "file"

NoVerify == [folder |-> <<>>, ret |-> ConfNotCalled]

VerifyIdle ==
    /\ helper_scheme = "file"
    /\ dirs = {}
    /\ vu_calls = 0
    /\ vu_folder = <<>>
    /\ vu_ret = ConfNotCalled
    /\ vu_prev = NoVerify
    /\ vu_dirs0 = {}

(***************************************************************************)
(* check_write_permissions.                                                *)
(***************************************************************************)
\* six.BytesIO(b'trains'), two bytes long in the model
MarkerStream == [data |-> <<"x", "y">>, pos |-> 0, seekable |-> TRUE]

\* Whether delete(path), that is driver.delete_object(self._get_object(path)),
\* raises.  When the backend holds no such object: the s3 driver's handle is
\* made without asking and its delete raises only if the backend refuses;
\* the gs backend answers not found; the azure and file drivers' get_object
\* raises, _get_object returns None and delete_object(None) raises
\* AttributeError.  When it holds the object a refused delete raises, except
\* in the file driver, whose delete_object returns False.  The http driver's
\* delete_object always raises NotImplementedError.
delete_raises(sch, exists, outcome) ==
    IF sch = "http" THEN TRUE
    ELSE IF ~exists THEN (sch # "s3" \/ outcome = "failed")
    ELSE outcome = "failed" /\ sch # "file"

CheckIdle ==
    /\ cw_pc = "idle"
    /\ cw_dest = FALSE
    /\ cw_calls = 0
    /\ marker = FALSE
    /\ cw_upload = "none"
    /\ cw_delete = "none"
    /\ cw_ret = "none"

(***************************************************************************)
(* Asynchronous uploads: upload_pool and the _UploadData of a task.        *)
(***************************************************************************)
MaxTasks == 2

\* _UploadData(src_path, dest_path, extra, callback, retries); the source
\* file is named by its content.
UploadData(src, dest, extra, cb, retries) ==
    [src_path |-> src, dest_path |-> dest, extra |-> extra, callback |-> cb,
     retries |-> retries]

\* The arguments of the upload(..., async_enable=True) calls of the model.
AsyncCalls ==
    { [src_path |-> <<"x">>, extra |-> "None", cb |-> FALSE, retries |-> 0],
      [src_path |-> <<"y">>, extra |-> "meta", cb |-> TRUE, retries |-> MaxRetries - 1],
      [src_path |-> <<"x", "y">>, extra |-> "None", cb |-> TRUE, retries |-> 1] }

\* _do_async_upload with 'retries' left to the default of _do_upload.
task_retries_default(data) == 1

\* retries=data.retries in _do_async_upload
task_retries(data) == data.retries

\* upload_pool = ThreadPool(processes=1)
PoolWidth == 1

\* The worker takes the task that was queued last.
pool_next_newest(queue) == queue[Len(queue)]

\* The worker of upload_pool gets its next task from the queue that
\* apply_async puts the tasks into, first in first out.
pool_next(queue) == Head(queue)

AsyncIdle ==
    /\ async_tasks = <<>>
    /\ pool_queue = <<>>
    /\ pool_current = 0
    /\ pool_runs = <<>>
    /\ pool_results = <<>>

(***************************************************************************)
(* terminate_uploads and the tracked threads.                              *)
(***************************************************************************)
MaxTimeout == 2

\* The threads a caller may put into _async_upload_threads.
TrackedThreads == {"t1", "t2"}

\* The worker thread that ThreadPool(processes=1) starts for upload_pool.
PoolWorker == "pool_worker"

\* 'if force: return' left out.
terminate_returns_at_once_never(force) == FALSE

\* 'if force: return'
terminate_returns_at_once(force) == force

\* Every join given the whole timeout.
join_timeout_whole(remaining, timeout) == timeout

\* thread.join(timeout=remaining_timeout)
join_timeout(remaining, timeout) == remaining

\* How long thread.join(timeout) takes for a thread that still runs for
\* 'work': until the thread ends or the timeout is over; a timeout that is
\* not positive does not wait.
join_duration(work, timeout) ==
    IF timeout <= 0 THEN 0
    ELSE IF work <= timeout THEN work ELSE timeout

TerminateIdle ==
    /\ terminate = FALSE
    /\ async_upload_threads = {}
    /\ thread_reg = <<>>
    /\ thread_work = [t \in TrackedThreads |-> 0]
    /\ tu_pc = "idle"
    /\ tu_force = TRUE
    /\ tu_timeout = 0
    /\ remaining_timeout = 0
    /\ tu_todo = {}
    /\ tu_joins = <<>>

(***************************************************************************)
(* _Stream: the pipe between a producer's writes and a consumer's reads,   *)
(* or the wrapper of an iterator.                                          *)
(***************************************************************************)
MaxWrites == 2

MaxReads == 3

MaxReadSize == 2

\* Queue(): maxsize 0, a queue without an upper bound.
QueueMaxsize == 0

\* Queue.full(), on which put(block=True) waits.
queue_full(buffer) == QueueMaxsize > 0 /\ Len(buffer) >= QueueMaxsize

\* The chunks a producer writes or an iterator yields.
PipeChunks == { <<"x">>, <<"y", "x">>, <<"x", "y", "y">> }

\* input_iterator=None
NoIter == <<"<None>">>

\* In the place of a chunk of an iterator: next(iterator) raises an error
\* other than StopIteration there.  A generator has ended by raising; an
\* iterator object (a closed file, say) raises on every further call.
IterRaisesOnce == <<"<raises, then ended>">>

IterRaisesAlways == <<"<raises on every call>">>

IterFailures == {IterRaisesOnce, IterRaisesAlways}

\* The iterator after an error of next(iterator).
iter_after_error(iter) ==
    IF Head(iter) = IterRaisesOnce THEN <<>> ELSE iter

\* _leftover = None
NoLeftover == <<"<None>">>

\* read(size=None), read(size=n)
SizeNone == [none |-> TRUE, n |-> 0]

Size(n) == [none |-> FALSE, n |-> n]

ReadSizes == {SizeNone} \cup {Size(n) : n \in 1..MaxReadSize}

RECURSIVE Flatten(_)
\* The bytes of a sequence of chunks.
Flatten(chunks) ==
    IF chunks = <<>> THEN <<>> ELSE Head(chunks) \o Flatten(Tail(chunks))

\* One pass of the loop of _Stream.next: StopIteration once the stream is
\* closed and the queue is empty; the next chunk of the iterator,
\* StopIteration (and closed) at its end, or its error logged and the loop
\* gone round again; the head of the queue, waiting while there is none.
stream_next(closed, buffer, iter) ==
    IF closed /\ buffer = <<>> THEN "stop"
    ELSE IF iter # NoIter
         THEN (IF iter = <<>> THEN "exhausted"
               ELSE IF Head(iter) \in IterFailures THEN "error" ELSE "chunk")
    ELSE IF buffer # <<>> THEN "chunk" ELSE "wait"

\* The condition of the loop of read.
read_more(size, data) == size.none \/ data = <<>> \/ Len(data) < size.n

\* The remainder is dropped.
read_leftover_lost(size, data) == NoLeftover

\* 'self._leftover = data[size:]' under 'size is not None and data and
\* len(data) > size'
read_leftover(size, data) ==
    IF ~size.none /\ data # <<>> /\ Len(data) > size.n
    THEN StrFrom(data, size.n) ELSE NoLeftover

\* 'return data[:size]' under the same condition, 'return data' otherwise.
read_result(size, data) ==
    IF ~size.none /\ data # <<>> /\ Len(data) > size.n
    THEN StrUpTo(data, size.n) ELSE data

NoReadStart == [leftover |-> NoLeftover, drained |-> FALSE]

PipeIdle ==
    /\ st_closed = FALSE
    /\ st_buffer = <<>>
    /\ st_iter = NoIter
    /\ st_leftover = NoLeftover
    /\ st_written = <<>>
    /\ wr_count = 0
    /\ st_drained = FALSE
    /\ rd_pc = "idle"
    /\ rd_size = SizeNone
    /\ rd_data = <<>>
    /\ rd_start = NoReadStart
    /\ rd_log = <<>>

(***************************************************************************)
(* get_container of the s3, gs and azure drivers and their _containers.    *)
(***************************************************************************)
ContainerNames == {"c1", "c2"}

\* The drivers that keep a class-wide dictionary of containers.
CachingDrivers == {"s3", "gs", "azure"}

\* kwargs.get('retries', 5)
DefaultRetries == 5

\* The retries a helper is constructed with.
RetriesArgs == {1, DefaultRetries}

\* The s3 and gs drivers assign config.retries in get_container; in the azure
\* driver the line is commented out.
driver_sets_retries(sch) == sch \in {"s3", "gs"}

\* kwargs.get('retries', 5): the constructor hands retries to the s3 driver
\* and nothing to the gs driver.
retries_kwarg(sch, retries) == IF sch = "s3" THEN retries ELSE DefaultRetries

ContainerIdle ==
    /\ containers = [n \in ContainerNames |-> 0]
    /\ gc_pc = [t \in Threads |-> "idle"]
    /\ gc_name = [t \in Threads |-> "c1"]
    /\ gc_new = [t \in Threads |-> 0]
    /\ gc_ret = [t \in Threads |-> 0]
    /\ gc_made = <<>>
    /\ gc_retries = [t \in Threads |-> DefaultRetries]
    /\ gc_config = <<>>

(***************************************************************************)
(* download_to_file called by several threads for one local_path.          *)
(***************************************************************************)
\* The threads that download to local_path.
RaceThreads == {"t1", "t2"}

RaceIdle ==
    /\ rc_local = "none"
    /\ rc_pc = [t \in RaceThreads |-> "idle"]
    /\ rc_overwrite = [t \in RaceThreads |-> FALSE]
    /\ rc_temp = [t \in RaceThreads |-> FALSE]
    /\ rc_ret = [t \in RaceThreads |-> "none"]

ExtIdle == AsyncIdle /\ TerminateIdle /\ PipeIdle /\ ContainerIdle /\ RaceIdle

AuxIdle == ListIdle /\ ConformIdle /\ VerifyIdle /\ CheckIdle /\ ExtIdle

(***************************************************************************)
(* Path substitution: state machine.                                       *)
(***************************************************************************)
Urls == StringsUpTo(MaxUrlLen)

\* canon_url and canon_out hold the last call of _canonize_url until the next
\* operation on the registry; NotCalled when there is none.
NotCalled == <<"<not called>">>

\* add_call holds the last add_path_substitution call until the next
\* operation on the registry; NoAdd when there is none.
NoAdd == [called |-> FALSE, registered_prefix |-> <<>>, local_prefix |-> <<>>,
          replace_windows_sep |-> FALSE, replace_linux_sep |-> FALSE, ret |-> "none"]

AddCall(reg, loc, win, lin, ret) ==
    [called |-> TRUE, registered_prefix |-> reg, local_prefix |-> loc,
     replace_windows_sep |-> win, replace_linux_sep |-> lin, ret |-> ret]

\* The two checks of add_path_substitution with the second one left out.
add_raises_prefixes_only(reg, loc, win, lin) == reg = <<>> \/ loc = <<>>

\* The two checks at the head of add_path_substitution: 'not registered_prefix
\* or not local_prefix', then both separator flags.
add_raises(reg, loc, win, lin) ==
    \/ reg = <<>> \/ loc = <<>>
    \/ win /\ lin

InitCanon ==
    /\ os_name \in OsNames
    /\ path_substitutions \in {load_list_from_config(c) : c \in ConfigLists}
    /\ canon_url = NotCalled
    /\ canon_out = NotCalled
    /\ add_call = NoAdd
    /\ scheme = "file"
    /\ remote = [o \in {DestPath} |-> NoObject]
    /\ UploadIdle
    /\ GetIdle
    /\ DownloadIdle
    /\ AuxIdle

\* add_path_substitution: raises UsageError (the registry is untouched) on an
\* empty prefix or on both flags, and appends the rule otherwise.
add_path_substitution(reg, loc, win, lin) ==
    /\ Len(path_substitutions) < MaxRules
    /\ IF add_raises(reg, loc, win, lin)
       THEN /\ UNCHANGED path_substitutions
            /\ add_call' = AddCall(reg, loc, win, lin, "UsageError")
       ELSE /\ path_substitutions' =
                Append(path_substitutions, PathSubstitutionRule(reg, loc, win, lin))
            /\ add_call' = AddCall(reg, loc, win, lin, "None")
    /\ canon_url' = NotCalled
    /\ canon_out' = NotCalled
    /\ UNCHANGED <<os_name, scheme, remote, uploadVars, getVars, downloadVars, streamVars, auxVars>>

\* clear_path_substitutions
clear_path_substitutions ==
    /\ path_substitutions' = <<>>
    /\ add_call' = NoAdd
    /\ canon_url' = NotCalled
    /\ canon_out' = NotCalled
    /\ UNCHANGED <<os_name, scheme, remote, uploadVars, getVars, downloadVars, streamVars, auxVars>>

\* _canonize_url(url)
CanonizeUrl(url) ==
    /\ canon_url' = url
    /\ canon_out' = canonize_url(path_substitutions, url, OsSep(os_name))
    /\ add_call' = NoAdd
    /\ UNCHANGED <<os_name, path_substitutions, scheme, remote, uploadVars, getVars, downloadVars, streamVars, auxVars>>

NextCanon ==
    \/ \E reg \in RegisteredPrefixes, loc \in LocalPrefixes, win, lin \in BOOLEAN :
           add_path_substitution(reg, loc, win, lin)
    \/ clear_path_substitutions
    \/ \E url \in Urls : CanonizeUrl(url)

SpecCanon == InitCanon /\ [][NextCanon]_vars

(***************************************************************************)
(* Uploads: state machine of upload (synchronous) and upload_from_stream.  *)
(***************************************************************************)
CanonIdle ==
    /\ path_substitutions = <<>>
    /\ canon_url = NotCalled
    /\ canon_out = NotCalled
    /\ add_call = NoAdd

UploadCalls ==
    {[op |-> "upload", retries |-> n, cb |-> c, data |-> d, pos |-> 0, seekable |-> TRUE] :
        n \in 0..MaxRetries, c \in BOOLEAN, d \in ByteStrings}
    \cup
    UNION {{[op |-> "upload_from_stream", retries |-> n, cb |-> FALSE, data |-> d,
             pos |-> p, seekable |-> k] :
              n \in 0..MaxRetries, p \in 0..Len(d), k \in BOOLEAN} : d \in ByteStrings}

UploadPending(call) ==
    /\ stream = [data |-> call.data, pos |-> call.pos, seekable |-> call.seekable]
    /\ up_op = call.op
    /\ up_retries = call.retries
    /\ up_cb = call.cb
    /\ up_dest = DestPath
    /\ up_pc = "start"
    /\ up_last_ex = 0
    /\ up_attempts = <<>>
    /\ up_cb_calls = <<>>
    /\ up_ret = NoReturn

InitUpload ==
    /\ os_name = "posix"
    /\ CanonIdle
    /\ scheme \in Schemes
    /\ remote = [o \in {DestPath} |-> NoObject]
    /\ \E call \in UploadCalls : UploadPending(call)
    /\ GetIdle
    /\ DownloadIdle
    /\ AuxIdle

\* upload / upload_from_stream up to the retry loop: dest_path is canonized;
\* _do_upload calls cb(None) when a callback was given (an exception of the
\* callback is logged and ignored).
UploadStart ==
    /\ up_pc = "start"
    /\ up_dest' = canonize_url(path_substitutions, up_dest, OsSep(os_name))
    /\ up_cb_calls' = IF up_op = "upload" /\ up_cb THEN <<CbNone>> ELSE <<>>
    /\ up_pc' = IF upload_loop_range(up_retries) > 0 THEN "loop" ELSE "after_loop"
    /\ UNCHANGED <<os_name, canonVars, scheme, remote, stream, up_op, up_retries,
                   up_cb, up_last_ex, up_attempts, up_ret, getVars, downloadVars, streamVars, auxVars>>

\* One pass of the retry loop: the driver call, and its except branch.
UploadAttempt(outcome, consumed) ==
    /\ up_pc = "loop"
    /\ Len(up_attempts) < upload_loop_range(up_retries)
    /\ outcome \in AttemptOutcomes(scheme, up_op, stream)
    /\ consumed \in stream.pos..Len(stream.data)
    /\ outcome = "stored" => consumed = Len(stream.data)
    /\ LET raised == outcome # "stored" /\ ~driver_swallows_upload_error(scheme)
           read   == IF up_op = "upload_from_stream"
                     THEN [stream EXCEPT !.pos = consumed] ELSE stream
       IN  /\ remote' = remote_after_attempt(remote, scheme, outcome,
                                             upload_payload(up_op, stream))
           /\ stream' = IF raised /\ up_op = "upload_from_stream"
                        THEN seek_to_beginning(read) ELSE read
           /\ up_attempts' = Append(up_attempts,
                                    [pos |-> stream.pos, stored |-> outcome = "stored",
                                     raised |-> raised])
           /\ up_last_ex' = IF raised THEN Len(up_attempts) + 1 ELSE 0
           /\ up_pc' = IF ~raised \/ Len(up_attempts) + 1 = upload_loop_range(up_retries)
                       THEN "after_loop" ELSE "loop"
    /\ UNCHANGED <<os_name, canonVars, scheme, up_op, up_retries, up_cb, up_dest,
                   up_cb_calls, up_ret, getVars, downloadVars, streamVars, auxVars>>

\* The callback calls _do_upload makes after the loop: cb(False) before it
\* raises (a missing callback makes that call raise TypeError, which is
\* caught), cb(dest_path) before it returns.
final_cb_calls_none(op, cb, failed, dest) == <<>>

final_cb_calls(op, cb, failed, dest) ==
    IF op # "upload" \/ ~cb THEN <<>>
    ELSE IF failed THEN <<CbFalse>> ELSE <<dest>>

\* After the loop: raise last_ex, or return dest_path.
UploadFinish ==
    /\ up_pc = "after_loop"
    /\ up_cb_calls' = up_cb_calls \o final_cb_calls(up_op, up_cb, up_last_ex # 0, up_dest)
    /\ IF up_last_ex # 0
       THEN up_pc' = "raised" /\ up_ret' = Raised(up_last_ex)
       ELSE up_pc' = "returned" /\ up_ret' = Returned(up_dest)
    /\ UNCHANGED <<os_name, canonVars, scheme, remote, stream, up_op, up_retries,
                   up_cb, up_dest, up_last_ex, up_attempts, getVars, downloadVars, streamVars, auxVars>>

NextUpload ==
    \/ UploadStart
    \/ \E outcome \in {"stored", "failed", "failed_truncated"}, consumed \in 0..MaxBytes :
           UploadAttempt(outcome, consumed)
    \/ UploadFinish

SpecUpload == InitUpload /\ [][NextUpload]_vars

(***************************************************************************)
(* Helper instances: state machine of get.  No substitution rule is        *)
(* registered here, so _canonize_url returns the url it is given.          *)
(***************************************************************************)
InitGet ==
    /\ os_name = "posix"
    /\ CanonIdle
    /\ scheme = "file"
    /\ remote = [o \in {DestPath} |-> NoObject]
    /\ UploadIdle
    /\ config \in Configs
    /\ helpers = <<>>
    /\ instances = <<>>
    /\ get_last = NoCall
    /\ thread_inc = [t \in Threads |-> 1]
    /\ DownloadIdle
    /\ AuxIdle

\* StorageHelper.get(url, __force_create=force, key=..., secret=...) called by
\* a thread; the keyword arguments go to the constructor and nowhere else.
GetWithKey(thread, url, force, creds) ==
    LET base_url == resolve_base_url(config, url)
        key      == instance_key(base_url, thread)
        id       == Len(instances) + 1
    IN  /\ IF base_url = RaisedBaseUrl
           THEN \* _resolve_base_url raised, outside the try of get
                /\ get_last' = GetCall(thread, url, force, creds, key, "raised", 0, FALSE)
                /\ UNCHANGED <<helpers, instances>>
           ELSE IF cache_hit(helpers, key, force)
           THEN /\ get_last' = GetCall(thread, url, force, creds, key, "instance",
                                       helpers[key], FALSE)
                /\ UNCHANGED <<helpers, instances>>
           ELSE IF init_raises(conf_update(config, creds), url)
           THEN \* except Exception: log the failure and return None
                /\ get_last' = GetCall(thread, url, force, creds, key, "None", 0, FALSE)
                /\ UNCHANGED <<helpers, instances>>
           ELSE /\ Len(instances) < MaxHelpers
                /\ instances' = Append(instances, [key |-> key, url |-> url,
                                                   creds |-> creds,
                                                   inc |-> thread_inc[thread]])
                /\ helpers' = (key :> id) @@ helpers
                /\ get_last' = GetCall(thread, url, force, creds, key, "instance", id,
                                       TRUE)
        /\ UNCHANGED <<os_name, canonVars, scheme, remote, uploadVars, config,
                       thread_inc, downloadVars, streamVars, auxVars>>

\* StorageHelper.get(url, __force_create=force) called by a thread
Get(thread, url, force) == GetWithKey(thread, url, force, None)

NextGet == \E thread \in Threads, url \in GetUrls, force \in BOOLEAN : Get(thread, url, force)

SpecGet == InitGet /\ [][NextGet]_vars

\* A thread ends and a new thread is given its ident
\* (threading.current_thread().ident is reused after a thread has ended).
ThreadExit(thread) ==
    /\ thread_inc[thread] < MaxIncarnations
    /\ thread_inc' = [thread_inc EXCEPT ![thread] = @ + 1]
    /\ UNCHANGED <<os_name, canonVars, scheme, remote, uploadVars, config, helpers,
                   instances, get_last, downloadVars, streamVars, auxVars>>

\* get called by threads that come and go, with every backend configured.
InitGetThreads ==
    /\ InitGet
    /\ config = [s3_key |-> TRUE, azure |-> "ok", sdk |-> TRUE, local_dir |-> TRUE]

\* The urls the threads call get with: two of one destination, one of another.
ThreadUrls == { Url("s3", "b1", "x"), Url("s3", "b1", "y"), Url("file", "", "x") }

NextGetThreads ==
    \/ \E thread \in Threads, url \in ThreadUrls, force \in BOOLEAN :
           Get(thread, url, force)
    \/ \E thread \in Threads : ThreadExit(thread)

SpecGetThreads == InitGetThreads /\ [][NextGetThreads]_vars

\* get called with and without a key and secret, in any environment.
NextGetKeys ==
    \E thread \in Threads, url \in ThreadUrls, force \in BOOLEAN,
       creds \in {None} \cup ExplicitCredentials :
        GetWithKey(thread, url, force, creds)

SpecGetKeys == InitGet /\ [][NextGetKeys]_vars

(***************************************************************************)
(* Downloads: state machine.  A helper uploads an object (default retries, *)
(* from a file or from a stream at offset 0) and then downloads it to      *)
(* local_path, up to MaxTime times.                                        *)
(***************************************************************************)
InitDownload ==
    /\ os_name \in OsNames
    /\ CanonIdle
    /\ scheme \in Schemes
    /\ remote \in {[o \in {DestPath} |-> c] : c \in {NoObject, <<"y">>}}
    /\ \E call \in UploadCalls :
          /\ call.retries = 1
          /\ ~call.cb
          /\ call.pos = 0
          /\ call.seekable
          /\ UploadPending(call)
    /\ GetIdle
    /\ files \in {[p \in Paths |-> IF p = LocalPath THEN c ELSE NoFile] : c \in {NoFile, <<"y">>}}
    /\ now = 0
    /\ dl_pc = "idle"
    /\ dl_overwrite = FALSE
    /\ dl_delete_on_failure = TRUE
    /\ temp_local_path = NoPath
    /\ dl_obj = NoObj
    /\ dl_ret = DlNoReturn
    /\ dl_files0 = files
    /\ dl_failed_at = "none"
    /\ as_ret = AsNoReturn
    /\ as_cause = "not called"
    /\ AuxIdle

dlFrame == <<os_name, canonVars, scheme, remote, uploadVars, getVars, streamVars, auxVars>>

\* download_to_file up to _get_object: the direct access check, the check
\* for an existing file, the name of the temp file.
DownloadStart(overwrite_existing, delete_on_failure) ==
    /\ dl_pc \in {"idle", "done"}
    /\ up_pc \in {"returned", "raised"}
    /\ now < MaxTime
    /\ now' = now + 1
    /\ dl_overwrite' = overwrite_existing
    /\ dl_delete_on_failure' = delete_on_failure
    /\ dl_files0' = files
    /\ dl_failed_at' = "none"
    /\ dl_obj' = NoObj
    /\ IF get_direct_access(scheme) # NoPath
       THEN /\ dl_ret' = DlPath(get_direct_access(scheme))
            /\ dl_pc' = "done"
            /\ temp_local_path' = NoPath
       ELSE IF skip_existing(overwrite_existing, files[LocalPath] # NoFile)
       THEN /\ dl_ret' = DlPath(LocalPath)
            /\ dl_pc' = "done"
            /\ temp_local_path' = NoPath
       ELSE /\ dl_ret' = DlNoReturn
            /\ dl_pc' = "get_object"
            /\ temp_local_path' = TempPath(now')
    /\ as_ret' = AsNoReturn
    /\ as_cause' = "not called"
    /\ UNCHANGED <<os_name, canonVars, scheme, remote, uploadVars, getVars, files, auxVars>>

\* obj = self._get_object(remote_path) and the reading of the object's size.
\* An s3 or gs handle of an object the backend does not hold raises when its
\* size is read, which the except branch of download_to_file catches.
DownloadGetObject(outcome) ==
    /\ dl_pc = "get_object"
    /\ outcome \in get_object_outcomes(scheme, remote)
    /\ IF outcome # "ok"
       THEN /\ dl_ret' = IF get_object_raises(outcome) THEN DlDownloadError ELSE DlNone
            /\ dl_pc' = "done"
            /\ dl_failed_at' = IF outcome = "connection_error"
                               THEN "connection" ELSE "get_object"
            /\ UNCHANGED dl_obj
       ELSE IF remote[DestPath] = NoObject
       THEN /\ dl_pc' = "except"
            /\ dl_failed_at' = "size"
            /\ UNCHANGED <<dl_obj, dl_ret>>
       ELSE /\ dl_obj' = [found |-> TRUE, data |-> remote[DestPath]]
            /\ dl_pc' = "open"
            /\ UNCHANGED <<dl_ret, dl_failed_at>>
    /\ UNCHANGED <<dlFrame, files, now, dl_overwrite, dl_delete_on_failure,
                   temp_local_path, dl_files0>>

\* driver.download_object(obj, temp_local_path, callback=cb) opens its target
\* for writing, or raises.
DownloadOpen(ok) ==
    /\ dl_pc = "open"
    /\ IF ok
       THEN /\ files' = [files EXCEPT ![download_target(temp_local_path, LocalPath)] = <<>>]
            /\ dl_pc' = "transfer"
            /\ UNCHANGED dl_failed_at
       ELSE /\ dl_pc' = "except"
            /\ dl_failed_at' = "open"
            /\ UNCHANGED files
    /\ UNCHANGED <<dlFrame, now, dl_overwrite, dl_delete_on_failure,
                   temp_local_path, dl_obj, dl_ret, dl_files0>>

\* download_object writes the next chunk of the object to its target.
DownloadChunk ==
    /\ dl_pc = "transfer"
    /\ LET target == download_target(temp_local_path, LocalPath)
           done   == Len(files[target])
       IN  /\ done < Len(dl_obj.data)
           /\ files' = [files EXCEPT ![target] = Append(@, dl_obj.data[done + 1])]
    /\ UNCHANGED <<dlFrame, now, dl_pc, dl_overwrite, dl_delete_on_failure,
                   temp_local_path, dl_obj, dl_ret, dl_files0, dl_failed_at>>

\* download_object returns once the whole object is written.
DownloadTransferDone ==
    /\ dl_pc = "transfer"
    /\ Len(files[download_target(temp_local_path, LocalPath)]) = Len(dl_obj.data)
    /\ dl_pc' = "verify"
    /\ UNCHANGED <<dlFrame, files, now, dl_overwrite, dl_delete_on_failure,
                   temp_local_path, dl_obj, dl_ret, dl_files0, dl_failed_at>>

\* download_object returns although the backend sent no byte of an object
\* that has some (an empty transfer).
DownloadTransferEmpty ==
    /\ dl_pc = "transfer"
    /\ Len(files[download_target(temp_local_path, LocalPath)]) = 0
    /\ Len(dl_obj.data) > 0
    /\ dl_pc' = "verify"
    /\ UNCHANGED <<dlFrame, files, now, dl_overwrite, dl_delete_on_failure,
                   temp_local_path, dl_obj, dl_ret, dl_files0, dl_failed_at>>

\* download_object raises in the middle of the transfer.
DownloadTransferFail ==
    /\ dl_pc = "transfer"
    /\ dl_pc' = "except"
    /\ dl_failed_at' = "transfer"
    /\ UNCHANGED <<dlFrame, files, now, dl_overwrite, dl_delete_on_failure,
                   temp_local_path, dl_obj, dl_ret, dl_files0>>

\* Path(temp_local_path).stat().st_size <= 0 raises, and so does stat when
\* there is no temp file.
DownloadVerify ==
    /\ dl_pc = "verify"
    /\ IF files[temp_local_path] = NoFile \/ size_check_fails(Len(files[temp_local_path]))
       THEN /\ dl_pc' = "except"
            /\ dl_failed_at' = "verify"
       ELSE /\ dl_pc' = IF os_name # "posix" THEN "remove_target" ELSE "rename"
            /\ UNCHANGED dl_failed_at
    /\ UNCHANGED <<dlFrame, files, now, dl_overwrite, dl_delete_on_failure,
                   temp_local_path, dl_obj, dl_ret, dl_files0>>

\* os.remove(local_path) where os.name is not posix; its exception is ignored.
DownloadRemoveTarget(removed) ==
    /\ dl_pc = "remove_target"
    /\ files' = IF removed THEN [files EXCEPT ![LocalPath] = NoFile] ELSE files
    /\ dl_pc' = "rename"
    /\ UNCHANGED <<dlFrame, now, dl_overwrite, dl_delete_on_failure,
                   temp_local_path, dl_obj, dl_ret, dl_files0, dl_failed_at>>

\* os.rename(temp_local_path, local_path) and the return of local_path.  Where
\* os.name is not posix the rename raises when local_path exists.
DownloadRename(ok) ==
    /\ dl_pc = "rename"
    /\ (os_name # "posix" /\ files[LocalPath] # NoFile) => ~ok
    /\ IF ok
       THEN /\ files' = [files EXCEPT ![LocalPath] = files[temp_local_path],
                                      ![temp_local_path] = NoFile]
            /\ dl_ret' = DlPath(LocalPath)
            /\ dl_pc' = "done"
            /\ UNCHANGED dl_failed_at
       ELSE /\ dl_pc' = "except"
            /\ dl_failed_at' = "rename"
            /\ UNCHANGED <<files, dl_ret>>
    /\ UNCHANGED <<dlFrame, now, dl_overwrite, dl_delete_on_failure,
                   temp_local_path, dl_obj, dl_files0>>

\* except Exception: log, remove the temp file if delete_on_failure, and
\* return None.
DownloadExcept ==
    /\ dl_pc = "except"
    /\ files' = IF dl_delete_on_failure /\ temp_local_path # NoPath
                THEN [files EXCEPT ![temp_local_path] = NoFile] ELSE files
    /\ dl_ret' = DlNone
    /\ dl_pc' = "done"
    /\ UNCHANGED <<dlFrame, now, dl_overwrite, dl_delete_on_failure,
                   temp_local_path, dl_obj, dl_files0, dl_failed_at>>

\* download_as_stream(remote_path): _get_object, then the driver's
\* download_object_as_stream on what it returned; a DownloadError goes to the
\* caller, any other exception is logged and None returned.
DownloadAsStream(outcome) ==
    /\ up_pc \in {"returned", "raised"}
    /\ dl_pc \in {"idle", "done"}
    /\ outcome \in get_object_outcomes(scheme, remote)
    /\ LET obj == IF outcome = "ok"
                  THEN [found |-> TRUE, data |-> remote[DestPath]]
                  ELSE NoObj
           res == download_object_as_stream(scheme, obj)
       IN  /\ as_cause' = IF outcome = "connection_error" THEN "connection"
                          ELSE IF outcome = "error" THEN "unresolved"
                          ELSE IF res = AsRaised THEN "driver raised"
                          ELSE "resolved"
           /\ as_ret' = IF outcome # "ok" /\ get_object_raises(outcome) THEN AsDownloadError
                        ELSE IF res = AsRaised THEN AsNone
                        ELSE res
    /\ UNCHANGED <<os_name, canonVars, scheme, remote, uploadVars, getVars, downloadVars, auxVars>>

NextDownload ==
    \/ UploadStart
    \/ \E outcome \in {"stored", "failed", "failed_truncated"}, consumed \in 0..MaxBytes :
           UploadAttempt(outcome, consumed)
    \/ UploadFinish
    \/ \E ow, dof \in BOOLEAN : DownloadStart(ow, dof)
    \/ \E outcome \in {"connection_error", "error", "ok"} : DownloadGetObject(outcome)
    \/ \E ok \in BOOLEAN : DownloadOpen(ok)
    \/ DownloadChunk
    \/ DownloadTransferDone
    \/ DownloadTransferEmpty
    \/ DownloadTransferFail
    \/ DownloadVerify
    \/ \E removed \in BOOLEAN : DownloadRemoveTarget(removed)
    \/ \E ok \in BOOLEAN : DownloadRename(ok)
    \/ DownloadExcept
    \/ \E outcome \in {"connection_error", "error", "ok"} : DownloadAsStream(outcome)

SpecDownload == InitDownload /\ [][NextDownload]_vars

(***************************************************************************)
(* Listing: state machine.                                                 *)
(***************************************************************************)
InitList ==
    /\ os_name = "posix"
    /\ CanonIdle
    /\ scheme \in Schemes
    /\ remote = [o \in {DestPath} |-> NoObject]
    /\ UploadIdle
    /\ GetIdle
    /\ DownloadIdle
    /\ container_objects \in {objs \in SUBSET ObjectNames : Cardinality(objs) <= MaxObjects}
    /\ list_arg = <<>>
    /\ list_ret = ListNotCalled
    /\ ConformIdle
    /\ VerifyIdle
    /\ CheckIdle
    /\ ExtIdle

\* list(prefix)
List(prefix) ==
    /\ list_arg' = prefix
    /\ list_ret' = list(scheme, BaseUrl, container_objects, prefix)
    /\ UNCHANGED <<os_name, canonVars, scheme, remote, uploadVars, getVars,
                   downloadVars, streamVars, container_objects, conformVars,
                   verifyVars, checkVars, extVars>>

NextList == \E prefix \in ListPrefixes : List(prefix)

SpecList == InitList /\ [][NextList]_vars

(***************************************************************************)
(* conform_url: state machine.                                             *)
(***************************************************************************)
InitConform ==
    /\ os_name \in OsNames
    /\ CanonIdle
    /\ scheme = "file"
    /\ remote = [o \in {DestPath} |-> NoObject]
    /\ UploadIdle
    /\ GetIdle
    /\ DownloadIdle
    /\ ListIdle
    /\ ConformIdle
    /\ VerifyIdle
    /\ CheckIdle
    /\ ExtIdle

\* conform_url(folder_uri, base_url)
ConformUrl(folder_uri, base_url) ==
    /\ conf_folder' = folder_uri
    /\ conf_base' = base_url
    /\ conf_ret' = conform_url(os_name, folder_uri, base_url)
    /\ UNCHANGED <<os_name, canonVars, scheme, remote, uploadVars, getVars,
                   downloadVars, streamVars, listVars, verifyVars, checkVars,
                   extVars>>

NextConform == \E folder_uri \in FolderUris, base_url \in BaseUrls : ConformUrl(folder_uri, base_url)

SpecConform == InitConform /\ [][NextConform]_vars

(***************************************************************************)
(* verify_upload: state machine.  The helper is on the local filesystem,   *)
(* made from a file:// url or from a bare path; its base url is 'file://'. *)
(***************************************************************************)
InitVerify ==
    /\ os_name = "posix"
    /\ CanonIdle
    /\ scheme = "file"
    /\ remote = [o \in {DestPath} |-> NoObject]
    /\ UploadIdle
    /\ GetIdle
    /\ DownloadIdle
    /\ ListIdle
    /\ ConformIdle
    /\ helper_scheme \in HelperSchemes
    /\ dirs = {<<>>, PathParts(Cwd(os_name))}
    /\ vu_calls = 0
    /\ vu_folder = <<>>
    /\ vu_ret = ConfNotCalled
    /\ vu_prev = NoVerify
    /\ vu_dirs0 = dirs
    /\ CheckIdle
    /\ ExtIdle

\* verify_upload(folder_uri)
VerifyUpload(folder_uri) ==
    /\ vu_calls < MaxCalls
    /\ vu_calls' = vu_calls + 1
    /\ LET canon     == canonize_url(path_substitutions, folder_uri, OsSep(os_name))
           conformed == conform_url(os_name, canon, FileBase)
           test_path == normalize_object_name(os_name, helper_scheme, FileBase, conformed.url)
       IN  /\ vu_ret' = conformed
           /\ dirs' = IF verify_is_file(helper_scheme)
                      THEN mkdir_parents(dirs, DirOf(os_name, test_path))
                      ELSE dirs
    /\ vu_folder' = folder_uri
    /\ vu_prev' = [folder |-> vu_folder, ret |-> vu_ret]
    /\ vu_dirs0' = dirs
    /\ UNCHANGED <<os_name, canonVars, scheme, remote, uploadVars, getVars,
                   downloadVars, streamVars, listVars, conformVars, helper_scheme,
                   checkVars, extVars>>

NextVerify == \E folder_uri \in FolderUris : VerifyUpload(folder_uri)

SpecVerify == InitVerify /\ [][NextVerify]_vars

(***************************************************************************)
(* check_write_permissions: state machine.                                 *)
(***************************************************************************)
InitCheck ==
    /\ os_name = "posix"
    /\ CanonIdle
    /\ scheme \in Schemes
    /\ remote = [o \in {DestPath} |-> NoObject]
    /\ UploadIdle
    /\ GetIdle
    /\ DownloadIdle
    /\ ListIdle
    /\ ConformIdle
    /\ VerifyIdle
    /\ CheckIdle
    /\ ExtIdle

cwFrame == <<os_name, canonVars, scheme, remote, uploadVars, getVars,
             downloadVars, streamVars, listVars, conformVars, verifyVars,
             extVars>>

\* check_write_permissions(dest_path) up to the upload: the marker's path,
\* and True at once for a path that starts with 'http'.
CheckStart(given) ==
    /\ cw_pc \in {"idle", "done"}
    /\ cw_calls < MaxCalls
    /\ cw_calls' = cw_calls + 1
    /\ cw_dest' = given
    /\ cw_upload' = "none"
    /\ cw_delete' = "none"
    /\ IF scheme = "http"
       THEN cw_pc' = "done" /\ cw_ret' = "True"
       ELSE cw_pc' = "upload" /\ cw_ret' = "none"
    /\ UNCHANGED <<cwFrame, marker>>

\* self.upload_from_stream(stream=six.BytesIO(b'trains'), dest_path=dest_path)
CheckUpload(outcome) ==
    /\ cw_pc = "upload"
    /\ outcome \in {"stored", "failed"}
    /\ outcome = "stored" => driver_can_store(scheme, "upload_from_stream", MarkerStream)
    /\ cw_upload' = outcome
    /\ marker' = (marker \/ outcome = "stored")
    /\ IF outcome # "stored" /\ ~driver_swallows_upload_error(scheme)
       THEN cw_pc' = "done" /\ cw_ret' = "ValueError"
       ELSE cw_pc' = "delete" /\ cw_ret' = "none"
    /\ UNCHANGED <<cwFrame, cw_dest, cw_calls, cw_delete>>

\* self.delete(path=dest_path), then 'return True', or ValueError from the
\* except branch.
CheckDelete(outcome) ==
    /\ cw_pc = "delete"
    /\ outcome \in {"deleted", "failed"}
    /\ cw_delete' = outcome
    /\ marker' = (marker /\ outcome # "deleted")
    /\ cw_ret' = IF delete_raises(scheme, marker, outcome) THEN "ValueError" ELSE "True"
    /\ cw_pc' = "done"
    /\ UNCHANGED <<cwFrame, cw_dest, cw_calls, cw_upload>>

NextCheck ==
    \/ \E given \in BOOLEAN : CheckStart(given)
    \/ \E outcome \in {"stored", "failed"} : CheckUpload(outcome)
    \/ \E outcome \in {"deleted", "failed"} : CheckDelete(outcome)

SpecCheck == InitCheck /\ [][NextCheck]_vars

(***************************************************************************)
(* Asynchronous uploads: state machine.  upload_pool is a ThreadPool of    *)
(* one worker thread: apply_async queues the task and returns its          *)
(* AsyncResult, the worker takes the tasks in the order of their           *)
(* submission and stores what the call returned or raised in the result.   *)
(***************************************************************************)
InitAsync ==
    /\ os_name = "posix"
    /\ CanonIdle
    /\ scheme \in Schemes
    /\ remote = [o \in {DestPath} |-> NoObject]
    /\ UploadIdle
    /\ GetIdle
    /\ DownloadIdle
    /\ AuxIdle

asyncFrame == <<os_name, canonVars, scheme, getVars, downloadVars, streamVars,
                listVars, conformVars, verifyVars, checkVars>>

\* upload(src_path, dest_path, extra, async_enable=True, cb, retries)
AsyncSubmit(call) ==
    /\ Len(async_tasks) < MaxTasks
    /\ LET data == UploadData(call.src_path,
                              canonize_url(path_substitutions, DestPath, OsSep(os_name)),
                              call.extra, call.cb, call.retries)
           id   == Len(async_tasks) + 1
       IN  /\ async_tasks' = Append(async_tasks, data)
           /\ pool_queue' = Append(pool_queue, id)
           /\ pool_results' = Append(pool_results, NoReturn)
    /\ UNCHANGED <<asyncFrame, remote, uploadVars, pool_current, pool_runs,
                   terminateVars, pipeVars, containerVars, raceVars>>

\* The worker takes the next task and runs _do_async_upload(data) up to the
\* retry loop of _do_upload.  Nothing on this path reads _terminate; the
\* run records what the flag was when the task was taken.
AsyncTake ==
    /\ pool_current = 0
    /\ pool_queue # <<>>
    /\ LET id   == pool_next(pool_queue)
           data == async_tasks[id]
       IN  /\ pool_current' = id
           /\ pool_queue' = SelectSeq(pool_queue, LAMBDA x : x # id)
           /\ stream' = [data |-> data.src_path, pos |-> 0, seekable |-> TRUE]
           /\ up_op' = "upload"
           /\ up_retries' = task_retries(data)
           /\ up_cb' = data.callback
           /\ up_dest' = data.dest_path
           /\ up_cb_calls' = IF data.callback THEN <<CbNone>> ELSE <<>>
           /\ up_pc' = IF upload_loop_range(task_retries(data)) > 0
                       THEN "loop" ELSE "after_loop"
           /\ pool_runs' = Append(pool_runs,
                                  [id |-> id,
                                   terminate |-> terminate,
                                   data |-> UploadData(data.src_path, data.dest_path,
                                                       data.extra, data.callback,
                                                       task_retries(data))])
    /\ up_last_ex' = 0
    /\ up_attempts' = <<>>
    /\ up_ret' = NoReturn
    /\ UNCHANGED <<asyncFrame, remote, async_tasks, pool_results, terminateVars,
                   pipeVars, containerVars, raceVars>>

\* _do_async_upload returned or raised: the worker completes the AsyncResult.
AsyncComplete ==
    /\ pool_current # 0
    /\ up_pc \in {"returned", "raised"}
    /\ pool_results' = [pool_results EXCEPT ![pool_current] = up_ret]
    /\ pool_current' = 0
    /\ up_pc' = "idle"
    /\ UNCHANGED <<asyncFrame, remote, stream, up_op, up_retries, up_cb, up_dest,
                   up_last_ex, up_attempts, up_cb_calls, up_ret, async_tasks,
                   pool_queue, pool_runs, terminateVars, pipeVars, containerVars,
                   raceVars>>

WorkerStep ==
    \/ AsyncTake
    \/ \E outcome \in {"stored", "failed", "failed_truncated"} :
           UploadAttempt(outcome, Len(stream.data))
    \/ UploadFinish
    \/ AsyncComplete

NextAsync ==
    \/ \E call \in AsyncCalls : AsyncSubmit(call)
    \/ WorkerStep

SpecAsync == InitAsync /\ [][NextAsync]_vars

\* The worker thread of upload_pool keeps running: a step it can take is
\* eventually taken.
SpecAsyncFair == SpecAsync /\ WF_vars(WorkerStep)

(***************************************************************************)
(* terminate_uploads: state machine.  Uploads are submitted and taken by   *)
(* the worker, threads are put into the registry by their owner, and       *)
(* terminate_uploads runs one join at a time.                              *)
(***************************************************************************)
\* The helper's driver plays no part in terminate_uploads.
InitTerminate == InitAsync /\ scheme = "file"

tuFrame == <<asyncFrame, remote, uploadVars, asyncVars, pipeVars, containerVars,
             raceVars>>

\* A caller adds a thread that still runs for 'work' to
\* StorageHelper._async_upload_threads.
RegisterThread(t, work) ==
    /\ tu_pc = "idle"
    /\ t \notin async_upload_threads
    /\ async_upload_threads' = async_upload_threads \cup {t}
    /\ thread_reg' = Append(thread_reg, t)
    /\ thread_work' = [thread_work EXCEPT ![t] = work]
    /\ UNCHANGED <<tuFrame, terminate, tu_pc, tu_force, tu_timeout,
                   remaining_timeout, tu_todo, tu_joins>>

\* terminate_uploads(force, timeout) up to its loop.
TerminateStart(force, timeout) ==
    /\ tu_pc = "idle"
    /\ tu_force' = force
    /\ tu_timeout' = timeout
    /\ tu_joins' = <<>>
    /\ IF terminate_returns_at_once(force)
       THEN /\ tu_pc' = "done"
            /\ UNCHANGED <<terminate, remaining_timeout, tu_todo>>
       ELSE /\ terminate' = TRUE
            /\ remaining_timeout' = timeout
            /\ tu_todo' = async_upload_threads
            /\ tu_pc' = IF async_upload_threads = {} THEN "done" ELSE "joining"
    /\ UNCHANGED <<tuFrame, async_upload_threads, thread_reg, thread_work>>

\* One pass of 'for thread in cls._async_upload_threads': the set is
\* iterated in an order of its own.  Time passes for every thread while the
\* join waits.
TerminateJoin(t) ==
    /\ tu_pc = "joining"
    /\ t \in tu_todo
    /\ LET given   == join_timeout(remaining_timeout, tu_timeout)
           elapsed == join_duration(thread_work[t], given)
       IN  /\ thread_work' = [u \in TrackedThreads |->
                                 Max(0, thread_work[u] - elapsed)]
           /\ remaining_timeout' = remaining_timeout - elapsed
           /\ tu_joins' = Append(tu_joins, [thread |-> t, timeout |-> given,
                                            elapsed |-> elapsed,
                                            running |-> thread_work[t] > elapsed])
    /\ tu_todo' = tu_todo \ {t}
    /\ tu_pc' = IF tu_todo = {t} THEN "done" ELSE "joining"
    /\ UNCHANGED <<tuFrame, terminate, async_upload_threads, thread_reg, tu_force,
                   tu_timeout>>

\* terminate_uploads has returned.
TerminateReturn ==
    /\ tu_pc = "done"
    /\ tu_pc' = "idle"
    /\ tu_joins' = <<>>
    /\ UNCHANGED <<tuFrame, terminate, async_upload_threads, thread_reg, thread_work,
                   tu_force, tu_timeout, remaining_timeout, tu_todo>>

NextTerminate ==
    \/ \E call \in AsyncCalls : AsyncSubmit(call)
    \/ AsyncTake
    \/ \E t \in TrackedThreads, work \in 0..(MaxTimeout + 1) : RegisterThread(t, work)
    \/ \E force \in BOOLEAN, timeout \in 1..MaxTimeout : TerminateStart(force, timeout)
    \/ \E t \in TrackedThreads : TerminateJoin(t)
    \/ TerminateReturn

SpecTerminate == InitTerminate /\ [][NextTerminate]_vars

\* Uploads are submitted and run to their end by the worker while
\* terminate_uploads is called with no thread in the registry.
NextCancel ==
    \/ \E call \in AsyncCalls : AsyncSubmit(call)
    \/ WorkerStep
    \/ \E force \in BOOLEAN, timeout \in 1..MaxTimeout : TerminateStart(force, timeout)
    \/ TerminateReturn

SpecCancel == InitTerminate /\ [][NextCancel]_vars

(***************************************************************************)
(* _Stream: state machine of one stream with a producer thread (write,     *)
(* close) and a consumer thread (read).                                    *)
(***************************************************************************)
InitPipe ==
    /\ os_name = "posix"
    /\ CanonIdle
    /\ scheme = "s3"
    /\ remote = [o \in {DestPath} |-> NoObject]
    /\ UploadIdle
    /\ GetIdle
    /\ DownloadIdle
    /\ ListIdle
    /\ ConformIdle
    /\ VerifyIdle
    /\ CheckIdle
    /\ AsyncIdle
    /\ TerminateIdle
    /\ ContainerIdle
    /\ RaceIdle
    /\ st_closed = FALSE
    /\ st_buffer = <<>>
    /\ st_iter \in {NoIter, <<>>, << <<"y", "x">>, <<"x">> >>,
                    << <<"x">>, IterRaisesOnce >>, << <<"y">>, IterRaisesAlways >>}
    /\ st_leftover = NoLeftover
    /\ st_written = <<>>
    /\ wr_count = 0
    /\ st_drained = FALSE
    /\ rd_pc = "idle"
    /\ rd_size = SizeNone
    /\ rd_data = <<>>
    /\ rd_start = NoReadStart
    /\ rd_log = <<>>

pipeFrame == <<asyncFrame, remote, uploadVars, asyncVars, terminateVars,
               containerVars, raceVars>>

\* Closed, nothing queued and nothing left over, with no read under way.
Drained(closed, buffer, leftover, pc) ==
    closed /\ buffer = <<>> /\ leftover = NoLeftover /\ pc = "idle"

\* write(bytes): self._buffer.put(bytes, block=True)
PipeWrite(chunk) ==
    /\ wr_count < MaxWrites
    /\ ~queue_full(st_buffer)
    /\ st_buffer' = Append(st_buffer, chunk)
    /\ st_written' = st_written \o chunk
    /\ wr_count' = wr_count + 1
    /\ UNCHANGED <<pipeFrame, st_closed, st_iter, st_leftover, st_drained, rd_pc,
                   rd_size, rd_data, rd_start, rd_log>>

\* close()
PipeClose ==
    /\ ~st_closed
    /\ st_closed' = TRUE
    /\ st_drained' = (st_drained \/ Drained(TRUE, st_buffer, st_leftover, rd_pc))
    /\ UNCHANGED <<pipeFrame, st_buffer, st_iter, st_leftover, st_written, wr_count,
                   rd_pc, rd_size, rd_data, rd_start, rd_log>>

\* read(size) up to its first self.next(): a leftover is taken instead.
ReadStart(size) ==
    /\ rd_pc = "idle"
    /\ Len(rd_log) < MaxReads
    /\ rd_size' = size
    /\ rd_start' = [leftover |-> st_leftover, drained |-> st_drained]
    /\ IF st_leftover = NoLeftover
       THEN rd_pc' = "first" /\ rd_data' = <<>>
       ELSE rd_pc' = "loop" /\ rd_data' = st_leftover
    /\ st_leftover' = NoLeftover
    /\ UNCHANGED <<pipeFrame, st_closed, st_buffer, st_iter, st_written, wr_count,
                   st_drained, rd_log>>

\* The result of a read is logged and the call returns.
ReadReturns(ret, leftover, ended, closed, buffer) ==
    /\ rd_log' = Append(rd_log, [size |-> rd_size, ret |-> ret, start |-> rd_start,
                                 ended |-> ended])
    /\ st_leftover' = leftover
    /\ rd_pc' = "idle"
    /\ st_drained' = (st_drained \/ Drained(closed, buffer, leftover, "idle"))

\* self.next() returns a chunk: of the iterator, or of the queue.
TakeChunk(data) ==
    IF st_iter # NoIter
    THEN /\ rd_data' = data \o Head(st_iter)
         /\ st_iter' = Tail(st_iter)
         /\ UNCHANGED st_buffer
    ELSE /\ rd_data' = data \o Head(st_buffer)
         /\ st_buffer' = Tail(st_buffer)
         /\ UNCHANGED st_iter

\* 'data = self.next()': a chunk, or StopIteration and 'return b\'\''.
ReadFirst ==
    /\ rd_pc = "first"
    /\ LET o == stream_next(st_closed, st_buffer, st_iter)
       IN  \/ /\ o = "chunk"
              /\ TakeChunk(<<>>)
              /\ rd_pc' = "loop"
              /\ UNCHANGED <<st_closed, st_leftover, st_drained, rd_log>>
           \/ /\ o \in {"stop", "exhausted"}
              /\ st_closed' = TRUE
              /\ ReadReturns(<<>>, NoLeftover, TRUE, TRUE, st_buffer)
              /\ UNCHANGED <<st_buffer, st_iter, rd_data>>
           \/ /\ o = "error"
              /\ st_iter' = iter_after_error(st_iter)
              /\ UNCHANGED <<st_closed, st_buffer, st_leftover, st_drained, rd_pc,
                             rd_data, rd_log>>
    /\ UNCHANGED <<pipeFrame, st_written, wr_count, rd_size, rd_start>>

\* One pass of the loop of read: 'chunk = self.next()' and 'data += chunk',
\* or StopIteration, which ends the loop.
ReadLoop ==
    /\ rd_pc = "loop"
    /\ read_more(rd_size, rd_data)
    /\ LET o == stream_next(st_closed, st_buffer, st_iter)
       IN  \/ /\ o = "chunk"
              /\ TakeChunk(rd_data)
              /\ rd_pc' = "loop"
              /\ UNCHANGED <<st_closed, st_leftover, st_drained, rd_log>>
           \/ /\ o \in {"stop", "exhausted"}
              /\ st_closed' = TRUE
              /\ ReadReturns(read_result(rd_size, rd_data),
                             read_leftover(rd_size, rd_data), TRUE, TRUE, st_buffer)
              /\ UNCHANGED <<st_buffer, st_iter, rd_data>>
           \/ /\ o = "error"
              /\ st_iter' = iter_after_error(st_iter)
              /\ UNCHANGED <<st_closed, st_buffer, st_leftover, st_drained, rd_pc,
                             rd_data, rd_log>>
    /\ UNCHANGED <<pipeFrame, st_written, wr_count, rd_size, rd_start>>

\* The loop ends with enough data: the part beyond size is kept as
\* _leftover and the rest returned.
ReadEnough ==
    /\ rd_pc = "loop"
    /\ ~read_more(rd_size, rd_data)
    /\ ReadReturns(read_result(rd_size, rd_data), read_leftover(rd_size, rd_data),
                   FALSE, st_closed, st_buffer)
    /\ UNCHANGED <<pipeFrame, st_closed, st_buffer, st_iter, st_written, wr_count,
                   rd_size, rd_data, rd_start>>

NextPipe ==
    \/ \E chunk \in PipeChunks : PipeWrite(chunk)
    \/ PipeClose
    \/ \E size \in ReadSizes : ReadStart(size)
    \/ ReadFirst
    \/ ReadLoop
    \/ ReadEnough

SpecPipe == InitPipe /\ [][NextPipe]_vars

\* The thread that called read keeps running.
ReaderStep == ReadFirst \/ ReadLoop \/ ReadEnough

SpecPipeFair == SpecPipe /\ WF_vars(ReaderStep)

(***************************************************************************)
(* get_container: state machine.  Each thread has a helper and a driver    *)
(* instance of its own; _containers is an attribute of the driver's class  *)
(* and is shared by them.  Constructing a container takes time (it         *)
(* imports the SDK and creates a client), so other threads run meanwhile.  *)
(***************************************************************************)
InitContainer ==
    /\ os_name = "posix"
    /\ CanonIdle
    /\ scheme \in CachingDrivers
    /\ remote = [o \in {DestPath} |-> NoObject]
    /\ UploadIdle
    /\ GetIdle
    /\ DownloadIdle
    /\ AuxIdle

gcFrame == <<asyncFrame, remote, uploadVars, asyncVars, terminateVars, pipeVars,
             raceVars>>

\* Where get_container goes on once the container is in _containers.
after_store(sch) == IF driver_sets_retries(sch) THEN "set_retries" ELSE "return"

\* get_container(container_name, retries=...), called by the constructor of a
\* helper: 'if container_name not in self._containers'
GetContainerCheck(t, name, retries) ==
    /\ gc_pc[t] = "idle"
    /\ gc_name' = [gc_name EXCEPT ![t] = name]
    /\ gc_retries' = [gc_retries EXCEPT ![t] = retries]
    /\ gc_pc' = [gc_pc EXCEPT ![t] = IF containers[name] = 0 THEN "construct"
                                     ELSE after_store(scheme)]
    /\ UNCHANGED <<gcFrame, containers, gc_new, gc_ret, gc_made, gc_config>>

\* self._Container(name=container_name, ...)
GetContainerConstruct(t) ==
    /\ gc_pc[t] = "construct"
    /\ gc_made' = Append(gc_made, gc_name[t])
    /\ gc_config' = Append(gc_config, 0)
    /\ gc_new' = [gc_new EXCEPT ![t] = Len(gc_made) + 1]
    /\ gc_pc' = [gc_pc EXCEPT ![t] = "store"]
    /\ UNCHANGED <<gcFrame, containers, gc_name, gc_ret, gc_retries>>

\* self._containers[container_name] = <the new container>
GetContainerStore(t) ==
    /\ gc_pc[t] = "store"
    /\ containers' = [containers EXCEPT ![gc_name[t]] = gc_new[t]]
    /\ gc_pc' = [gc_pc EXCEPT ![t] = after_store(scheme)]
    /\ UNCHANGED <<gcFrame, gc_name, gc_new, gc_ret, gc_made, gc_retries, gc_config>>

\* self._containers[container_name].config.retries = kwargs.get('retries', 5)
GetContainerSetRetries(t) ==
    /\ gc_pc[t] = "set_retries"
    /\ gc_config' = [gc_config EXCEPT ![containers[gc_name[t]]] =
                         retries_kwarg(scheme, gc_retries[t])]
    /\ gc_pc' = [gc_pc EXCEPT ![t] = "return"]
    /\ UNCHANGED <<gcFrame, containers, gc_name, gc_new, gc_ret, gc_made, gc_retries>>

\* return self._containers[container_name]
GetContainerReturn(t) ==
    /\ gc_pc[t] = "return"
    /\ gc_ret' = [gc_ret EXCEPT ![t] = containers[gc_name[t]]]
    /\ gc_pc' = [gc_pc EXCEPT ![t] = "idle"]
    /\ UNCHANGED <<gcFrame, containers, gc_name, gc_new, gc_made, gc_retries,
                   gc_config>>

NextContainer ==
    \/ \E t \in Threads, name \in ContainerNames, retries \in RetriesArgs :
           GetContainerCheck(t, name, retries)
    \/ \E t \in Threads : GetContainerConstruct(t)
    \/ \E t \in Threads : GetContainerStore(t)
    \/ \E t \in Threads : GetContainerSetRetries(t)
    \/ \E t \in Threads : GetContainerReturn(t)

SpecContainer == InitContainer /\ [][NextContainer]_vars

(***************************************************************************)
(* download_to_file by several threads: state machine.  Each thread calls  *)
(* download_to_file once for the same local_path on a helper whose driver  *)
(* has no direct access; the object is there and each call has a temp file *)
(* of its own.  The file at local_path is named by who put it there.       *)
(***************************************************************************)
InitRace ==
    /\ os_name \in OsNames
    /\ CanonIdle
    /\ scheme \in {"s3", "http"}
    /\ remote = [o \in {DestPath} |-> <<"y">>]
    /\ UploadIdle
    /\ GetIdle
    /\ DownloadIdle
    /\ ListIdle
    /\ ConformIdle
    /\ VerifyIdle
    /\ CheckIdle
    /\ AsyncIdle
    /\ TerminateIdle
    /\ PipeIdle
    /\ ContainerIdle
    /\ rc_local \in {"none", "before"}
    /\ rc_pc = [t \in RaceThreads |-> "idle"]
    /\ rc_overwrite = [t \in RaceThreads |-> FALSE]
    /\ rc_temp = [t \in RaceThreads |-> FALSE]
    /\ rc_ret = [t \in RaceThreads |-> "none"]

rcFrame == <<asyncFrame, remote, uploadVars, asyncVars, terminateVars, pipeVars,
             containerVars>>

\* download_to_file up to the transfer: no direct access, then 'if not
\* overwrite_existing and Path(local_path).is_file(): return local_path'.
RaceStart(t, overwrite_existing) ==
    /\ rc_pc[t] = "idle"
    /\ get_direct_access(scheme) = NoPath
    /\ rc_overwrite' = [rc_overwrite EXCEPT ![t] = overwrite_existing]
    /\ IF skip_existing(overwrite_existing, rc_local # "none")
       THEN /\ rc_pc' = [rc_pc EXCEPT ![t] = "done"]
            /\ rc_ret' = [rc_ret EXCEPT ![t] = "local_path"]
       ELSE /\ rc_pc' = [rc_pc EXCEPT ![t] = "transfer"]
            /\ UNCHANGED rc_ret
    /\ UNCHANGED <<rcFrame, rc_local, rc_temp>>

\* The object is written to the thread's temp file and its size checked: the
\* whole object, or an exception with part of it or nothing written.
RaceTransfer(t, outcome) ==
    /\ rc_pc[t] = "transfer"
    /\ rc_temp' = [rc_temp EXCEPT ![t] = outcome # "nothing"]
    /\ rc_pc' = [rc_pc EXCEPT ![t] =
                    IF outcome # "whole" THEN "except"
                    ELSE IF os_name # "posix" THEN "remove_target" ELSE "rename"]
    /\ UNCHANGED <<rcFrame, rc_local, rc_overwrite, rc_ret>>

\* os.remove(local_path) where os.name is not posix; its exception is ignored.
RaceRemoveTarget(t, removed) ==
    /\ rc_pc[t] = "remove_target"
    /\ removed => rc_local # "none"
    /\ rc_local' = IF removed THEN "none" ELSE rc_local
    /\ rc_pc' = [rc_pc EXCEPT ![t] = "rename"]
    /\ UNCHANGED <<rcFrame, rc_overwrite, rc_temp, rc_ret>>

\* os.rename(temp_local_path, local_path) and the return of local_path.  Where
\* os.name is not posix the rename raises when local_path exists.
RaceRename(t, ok) ==
    /\ rc_pc[t] = "rename"
    /\ (os_name # "posix" /\ rc_local # "none") => ~ok
    /\ IF ok
       THEN /\ rc_local' = t
            /\ rc_temp' = [rc_temp EXCEPT ![t] = FALSE]
            /\ rc_ret' = [rc_ret EXCEPT ![t] = "local_path"]
            /\ rc_pc' = [rc_pc EXCEPT ![t] = "done"]
       ELSE /\ rc_pc' = [rc_pc EXCEPT ![t] = "except"]
            /\ UNCHANGED <<rc_local, rc_temp, rc_ret>>
    /\ UNCHANGED <<rcFrame, rc_overwrite>>

\* except Exception: log, remove the temp file (delete_on_failure is left at
\* its default) and return None.
RaceExcept(t) ==
    /\ rc_pc[t] = "except"
    /\ rc_temp' = [rc_temp EXCEPT ![t] = FALSE]
    /\ rc_ret' = [rc_ret EXCEPT ![t] = "None"]
    /\ rc_pc' = [rc_pc EXCEPT ![t] = "done"]
    /\ UNCHANGED <<rcFrame, rc_local, rc_overwrite>>

NextRace ==
    \/ \E t \in RaceThreads, ow \in BOOLEAN : RaceStart(t, ow)
    \/ \E t \in RaceThreads, outcome \in {"whole", "partial", "nothing"} :
           RaceTransfer(t, outcome)
    \/ \E t \in RaceThreads, removed \in BOOLEAN : RaceRemoveTarget(t, removed)
    \/ \E t \in RaceThreads, ok \in BOOLEAN : RaceRename(t, ok)
    \/ \E t \in RaceThreads : RaceExcept(t)

SpecRace == InitRace /\ [][NextRace]_vars

(***************************************************************************)
(* Claims about uploads.                                                   *)
(***************************************************************************)
UploadEnded == up_pc \in {"returned", "raised"}

AllAttemptsRaised == \A j \in 1..Len(up_attempts) : up_attempts[j].raised

\* C2: a synchronous upload (upload, upload_from_stream) with retries = N
\* makes at most max(1, N) attempts; every attempt before the last one raised
\* (the loop stops at the first attempt that does not raise); a call that
\* returned made at least one attempt, its last attempt did not raise, and it
\* returned the destination url; a call raises exactly when all max(1, N)
\* attempts raised, and what it raises is the error of the last attempt.
C2_RetryLoop ==
    LET n == Len(up_attempts)
        m == IF up_retries >= 1 THEN up_retries ELSE 1
    IN  /\ n <= m
        /\ \A j \in 1..(n - 1) : up_attempts[j].raised
        /\ up_pc = "returned" =>
              /\ n >= 1
              /\ ~up_attempts[n].raised
              /\ up_ret = Returned(up_dest)
        /\ up_pc = "raised" =>
              /\ n = m
              /\ AllAttemptsRaised
              /\ up_ret = Raised(n)
        /\ (UploadEnded /\ n = m /\ AllAttemptsRaised) => up_pc = "raised"

\* An upload with retries = 3 whose first attempts raised and which a later
\* attempt, not the last one allowed, ended with success.
C2_Witness ==
    /\ up_pc = "returned"
    /\ Len(up_attempts) >= 2
    /\ Len(up_attempts) < up_retries

\* C3 (as claimed): in upload_from_stream on a seekable stream the read
\* position before every attempt equals the position at call time, and a
\* call whose last allowed attempt is the first that succeeds returns the
\* destination url.  The position at call time is that of the first attempt:
\* nothing reads the stream before it.
C3_PositionBeforeEachAttempt ==
    (up_op = "upload_from_stream" /\ stream.seekable) =>
        /\ \A j \in 1..Len(up_attempts) : up_attempts[j].pos = up_attempts[1].pos
        /\ (/\ UploadEnded
            /\ Len(up_attempts) = upload_loop_range(up_retries)
            /\ ~up_attempts[Len(up_attempts)].raised)
           => up_ret = Returned(up_dest)

\* C4: an upload given a callback calls it with None before any attempt and
\* with nothing else while the attempts run, and then once more: with the
\* destination url it returns, or with False before it raises; two calls in
\* all, whatever the number of attempts.
C4_CallbackProtocol ==
    (up_op = "upload" /\ up_cb) =>
        /\ up_pc = "start" => up_cb_calls = <<>> /\ up_attempts = <<>>
        /\ up_pc \in {"loop", "after_loop"} => up_cb_calls = <<CbNone>>
        /\ up_pc = "returned" => up_cb_calls = <<CbNone, up_ret.value>>
        /\ up_pc = "raised" => up_cb_calls = <<CbNone, CbFalse>>

\* An upload with a callback that raised after three failed attempts.
C4_Witness ==
    /\ up_op = "upload"
    /\ up_cb
    /\ up_pc = "raised"
    /\ Len(up_attempts) >= 3

\* C5 (as claimed): on every driver, an upload none of whose attempts stored
\* the object raises and its callback gets False; an upload returns the
\* destination url, and hands it to the callback, only if the backend stored
\* the object.
C5_BackendFailureRaises ==
    /\ up_pc = "returned" => up_attempts[Len(up_attempts)].stored
    /\ (UploadEnded /\ \A j \in 1..Len(up_attempts) : ~up_attempts[j].stored) =>
          /\ up_pc = "raised"
          /\ (up_op = "upload" /\ up_cb) => up_cb_calls[Len(up_cb_calls)] = CbFalse

\* C35: when upload_from_stream returns the destination url, the object the
\* backend holds is the bytes of the stream from its read position at call
\* time (the position of the first attempt), also when an earlier attempt
\* failed after it had read part of a stream that cannot seek.
C35_StreamStoredWhole ==
    (up_op = "upload_from_stream" /\ up_pc = "returned") =>
        remote[DestPath] = StrFrom(stream.data, up_attempts[1].pos)

(***************************************************************************)
(* Claims about downloads.                                                 *)
(***************************************************************************)
\* C1: while and after download_to_file runs on a driver without direct
\* access, no file but local_path and the temp file of the call differs from
\* what it was when the call began, and the temp file is
\* '{local_path}_{time()}.partially'; local_path differs only from the final
\* replacement on (os.remove where os.name is not posix, then os.rename),
\* which is reached only with the whole object, of non-zero size, in the temp
\* file; so a call that failed before it, in the transfer or in the size
\* check, leaves local_path as it was.
C1_TempFileUntilRename ==
    (dl_pc # "idle" /\ get_direct_access(scheme) = NoPath) =>
        /\ \A p \in Paths \ {LocalPath, temp_local_path} : files[p] = dl_files0[p]
        /\ temp_local_path # NoPath => temp_local_path = TempPath(now)
        /\ files[LocalPath] # dl_files0[LocalPath] =>
              /\ dl_pc \in {"rename", "except", "done"}
              /\ dl_failed_at \in {"none", "rename"}
              /\ dl_obj.found /\ dl_obj.data # <<>>
              /\ dl_pc = "rename" => files[temp_local_path] = dl_obj.data
              /\ dl_ret = DlPath(LocalPath) => files[LocalPath] = dl_obj.data
        /\ dl_failed_at \in {"open", "transfer", "verify"} =>
              files[LocalPath] = dl_files0[LocalPath]

\* A call that failed in the middle of the transfer and kept its temp file:
\* the temp file holds a part of the object, local_path is as it was.
C1_Witness ==
    /\ dl_pc = "done"
    /\ dl_failed_at = "transfer"
    /\ ~dl_delete_on_failure
    /\ files[temp_local_path] # NoFile
    /\ Len(files[temp_local_path]) >= 1
    /\ Len(files[temp_local_path]) < Len(dl_obj.data)

\* The bytes of the file a returned path names.
FileContent(p) == IF p = DirectPath THEN remote[DestPath] ELSE files[p]

\* C10 (as claimed): once an upload of bytes B has returned with the object
\* stored, a download_to_file of that object to a local_path that held no
\* file, in which the backend sent the whole object and no step raised but
\* the size check, returns a path whose file holds exactly B.
C10_RoundTrip ==
    (/\ dl_pc = "done"
     /\ up_pc = "returned"
     /\ up_attempts[Len(up_attempts)].stored
     /\ dl_files0[LocalPath] = NoFile
     /\ \/ dl_failed_at = "none"
        \/ dl_failed_at = "verify" /\ dl_obj.found /\ dl_obj.data = <<>>)
    => /\ dl_ret.kind = "path"
       /\ FileContent(dl_ret.path) = stream.data

\* Nothing was fetched, no temp file was named and no file has changed since
\* the call began.
NothingDone ==
    /\ dl_obj = NoObj
    /\ dl_failed_at = "none"
    /\ temp_local_path = NoPath
    /\ files = dl_files0

\* C11 (as claimed): a download_to_file with overwrite_existing = False that
\* found a file at local_path has returned local_path, with nothing fetched,
\* no temp file and no file changed, on every driver.
C11_SkipExistingAnyDriver ==
    (dl_pc # "idle" /\ ~dl_overwrite /\ dl_files0[LocalPath] # NoFile) =>
        /\ dl_pc = "done"
        /\ dl_ret = DlPath(LocalPath)
        /\ NothingDone

\* C11 (amended): on a driver without direct access, a download_to_file with
\* overwrite_existing = False that found a file at local_path has returned
\* local_path, with nothing fetched, no temp file and no file changed; so a
\* second call finds the same file and does the same.
C11_SkipExisting ==
    (/\ dl_pc # "idle"
     /\ scheme # "file"
     /\ ~dl_overwrite
     /\ dl_files0[LocalPath] # NoFile) =>
        /\ dl_pc = "done"
        /\ dl_ret = DlPath(LocalPath)
        /\ NothingDone

\* The second call in a row that found the file at local_path.
C11_Witness ==
    /\ dl_pc = "done"
    /\ now = 2
    /\ scheme = "s3"
    /\ ~dl_overwrite
    /\ dl_files0[LocalPath] # NoFile
    /\ dl_ret = DlPath(LocalPath)

\* C12: on the file driver download_to_file has returned the direct access
\* path as soon as it is called, with nothing fetched, no temp file and no
\* file changed (local_path neither created nor modified), whatever
\* overwrite_existing and delete_on_failure are; the s3, gs, azure and http
\* drivers report no direct access path.
C12_DirectAccess ==
    /\ (dl_pc # "idle" /\ scheme = "file") =>
          /\ dl_pc = "done"
          /\ dl_ret = DlPath(DirectPath)
          /\ NothingDone
    /\ \A sch \in Schemes \ {"file"} : get_direct_access(sch) = NoPath

\* A call on the file driver with overwrite_existing, without
\* delete_on_failure, and a file at local_path.
C12_Witness ==
    /\ dl_pc = "done"
    /\ scheme = "file"
    /\ dl_overwrite
    /\ ~dl_delete_on_failure
    /\ files[LocalPath] # NoFile
    /\ dl_ret = DlPath(DirectPath)

\* C13: the size check never lets a zero-byte temp file through to the
\* replacement of local_path; a call the size check ended returns None and
\* leaves local_path as it was; so no download returns a zero-byte file.
C13_ZeroByteIsFailure ==
    /\ dl_pc \in {"remove_target", "rename"} =>
          /\ files[temp_local_path] # NoFile
          /\ Len(files[temp_local_path]) > 0
    /\ dl_failed_at = "verify" =>
          /\ dl_pc \in {"except", "done"}
          /\ dl_pc = "done" => dl_ret = DlNone
          /\ files[LocalPath] = dl_files0[LocalPath]
    /\ (dl_obj.found /\ dl_ret = DlPath(LocalPath)) => Len(files[LocalPath]) > 0

\* An empty transfer of an object of two bytes, over a file at local_path
\* that was to be overwritten.
C13_Witness ==
    /\ dl_pc = "done"
    /\ dl_failed_at = "verify"
    /\ Len(dl_obj.data) >= 2
    /\ dl_overwrite
    /\ dl_files0[LocalPath] # NoFile
    /\ dl_ret = DlNone

\* C14: download_to_file and download_as_stream raise DownloadError exactly
\* when the driver raised ConnectionError while _get_object fetched the
\* handle; a call in which anything else raised returns None.
C14_DownloadErrorPropagates ==
    /\ dl_pc = "done" =>
          /\ dl_failed_at = "connection" <=> dl_ret = DlDownloadError
          /\ dl_failed_at \notin {"none", "connection"} => dl_ret = DlNone
    /\ as_cause = "connection" <=> as_ret = AsDownloadError
    /\ as_cause = "driver raised" => as_ret = AsNone
    /\ as_ret.kind \in {"none", "stream", "None", "DownloadError"}

\* A download_to_file that ended with None after a failed rename, and a
\* download_as_stream that raised DownloadError.
C14_Witness ==
    /\ dl_pc = "done"
    /\ dl_failed_at = "rename"
    /\ dl_ret = DlNone
    /\ as_ret = AsDownloadError

\* C15 (as claimed): when a download_to_file that failed after its temp file
\* was created returns, the temp file is gone if delete_on_failure; if not,
\* the temp file is there and local_path is as it was when the call began.
C15_TempFileOnFailure ==
    (dl_pc = "done" /\ dl_failed_at \in {"transfer", "verify", "rename"}) =>
        IF dl_delete_on_failure
        THEN files[temp_local_path] = NoFile
        ELSE /\ files[temp_local_path] # NoFile
             /\ files[LocalPath] = dl_files0[LocalPath]

\* C16 (as claimed): on every driver, a download_as_stream whose _get_object
\* did not resolve the object (the backend holds no such object, or the
\* driver raised something other than ConnectionError) returns None, never a
\* sequence of chunks.
C16_UnresolvedIsNone ==
    (as_cause = "unresolved" \/ (as_cause # "not called" /\ remote[DestPath] = NoObject))
        => as_ret.kind # "stream"

\* C37: a download_to_file call that has returned None has left a file that
\* existed at local_path before the call as it was, where os.name is posix
\* and where it is not, also when the final rename failed.
C37_FailureKeepsExistingFile ==
    (dl_pc = "done" /\ dl_ret = DlNone /\ dl_files0[LocalPath] # NoFile) =>
        files[LocalPath] = dl_files0[LocalPath]

\* C38: when download_to_file has returned a path, a file exists at that
\* path; for the direct access path of the file driver the file is the
\* object itself, so a call for an object the backend does not hold returns
\* None and not a path.
C38_ReturnedPathIsFile ==
    (dl_pc = "done" /\ dl_ret.kind = "path") =>
        FileContent(dl_ret.path) \notin {NoFile, NoObject}

\* C36: a step of a download_to_file call with overwrite_existing=False
\* never removes or replaces a file that exists at local_path, whatever the
\* other threads that download to the same local_path do in between.
C36_ExistingFileKept ==
    [][\A t \in RaceThreads :
          (rc_pc'[t] # rc_pc[t] /\ ~rc_overwrite[t] /\ rc_local # "none")
              => rc_local' = rc_local]_vars

(***************************************************************************)
(* Claims about listing.                                                   *)
(***************************************************************************)
\* C17 (as claimed): on the drivers that list (all but http), list(p) with a
\* non-empty p returns exactly the names of the container that start with p
\* and are not p.
C17_ListByPrefixAsGiven ==
    (list_ret # ListNotCalled /\ list_arg # <<>> /\ scheme # "http") =>
        list_ret = ListReturned({n \in container_objects :
                                    StartsWith(n, list_arg) /\ n # list_arg})

\* The prefix relative to the base url that a non-empty p stands for.
RelativePrefix(p) ==
    IF StartsWith(p, BaseUrl) THEN LStrip(StrFrom(p, Len(BaseUrl)), "/") ELSE p

\* C17 (amended): on the drivers that list, list(p) with a non-empty p
\* returns exactly the names n of the container that start with q and are
\* not q, where q is p itself when p does not start with the base url, and
\* otherwise p without the base url and without leading slashes; whether the
\* driver filtered by prefix (s3, azure) or returned all names (gs, file).
C17_ListByPrefix ==
    (list_ret # ListNotCalled /\ list_arg # <<>> /\ scheme # "http") =>
        list_ret = ListReturned({n \in container_objects :
                                    /\ StartsWith(n, RelativePrefix(list_arg))
                                    /\ n # RelativePrefix(list_arg)})

\* A list on a driver that returns all names, where the container holds the
\* prefix itself, a name under it and (so) the call returned one name of two.
C17_Witness ==
    /\ scheme = "gs"
    /\ list_arg = <<"a">>
    /\ <<"a">> \in container_objects
    /\ <<"a", "/">> \in container_objects
    /\ list_ret = ListReturned({<<"a", "/">>})

(***************************************************************************)
(* Claims about conform_url.                                               *)
(***************************************************************************)
\* What C18 says of a call with folder_uri and base_url.
ConformsTo(folder_uri, base_url, ret) ==
    /\ ret.kind = "url" => StartsWith(ret.url, base_url)
    /\ ret.kind \in {"url", "ValueError"}
    /\ StartsWith(folder_uri, base_url) => ret = ConfReturned(folder_uri)
    /\ (~StartsWith(folder_uri, base_url) /\ base_url = FileBase) =>
          \E sep \in {<<>>, <<"/">>} :
              ret = ConfReturned(FileBase \o sep \o path_absolute(os_name, folder_uri))
    /\ (~StartsWith(folder_uri, base_url) /\ base_url # FileBase) => ret = ConfValueError

\* C18 (as claimed): for every folder_uri and base_url, conform_url returns
\* a url that starts with base_url or raises ValueError; with base 'file://'
\* a folder_uri without that prefix becomes 'file://' and its absolute path;
\* with another base a folder_uri that does not start with it raises
\* ValueError.
C18_ConformAnyFolder ==
    conf_ret # ConfNotCalled => ConformsTo(conf_folder, conf_base, conf_ret)

\* C18 (amended): the same for every folder_uri that is not empty.
C18_Conform ==
    (conf_ret # ConfNotCalled /\ conf_folder # <<>>) =>
        ConformsTo(conf_folder, conf_base, conf_ret)

\* A path promoted to a file url, whose absolute path is not the path.
C18_Witness ==
    /\ conf_base = FileBase
    /\ conf_ret.kind = "url"
    /\ conf_folder # <<>>
    /\ ~StartsWith(conf_folder, <<"/">>)
    /\ conf_ret.url # FileBase \o conf_folder
    /\ StartsWith(conf_ret.url, FileBase)

(***************************************************************************)
(* Claims about verify_upload.                                             *)
(***************************************************************************)
\* The directory verify_upload(folder_uri) is to make sure of.
FolderDir(folder_uri) ==
    DirOf(os_name, StrFrom(conform_url(os_name, folder_uri, FileBase).url, Len(FileBase)))

\* C19 (as claimed): on a helper of the local filesystem, made from a
\* file:// url or from a bare path, after verify_upload(folder) the
\* directory of the folder exists and the call has returned the conformed
\* folder url; a call with the folder of the call before it returns the same
\* url and leaves the directories as they were.
C19_VerifyUploadCreates ==
    (vu_ret # ConfNotCalled /\ vu_folder # <<>>) =>
        /\ vu_ret = conform_url(os_name, vu_folder, FileBase)
        /\ FolderDir(vu_folder) \in dirs
        /\ (vu_prev.ret # ConfNotCalled /\ vu_prev.folder = vu_folder) =>
              /\ vu_ret = vu_prev.ret
              /\ dirs = vu_dirs0

(***************************************************************************)
(* Claims about check_write_permissions.                                   *)
(***************************************************************************)
\* C20 (as claimed): a check_write_permissions whose upload or whose delete
\* failed at the backend raises the permission error (it does not return
\* True), on every driver; after one that returned True the backend does not
\* hold the marker.
C20_CheckWritePermissions ==
    cw_pc = "done" =>
        /\ (cw_upload = "failed" \/ cw_delete = "failed") => cw_ret = "ValueError"
        /\ cw_ret = "True" => ~marker

(***************************************************************************)
(* Claims about get.                                                       *)
(***************************************************************************)
\* C6: a handle get returned is the cache entry of its key; a cache entry is
\* never removed, and is replaced only by a get with force-create for that
\* key that constructed the new handle it returns; a get without
\* force-create whose key is cached returns the cached handle and constructs
\* nothing.
C6_CacheReuse ==
    /\ [](get_last.ret = "instance" => helpers[get_last.key] = get_last.id)
    /\ [][ /\ \A k \in DOMAIN helpers :
                /\ k \in DOMAIN helpers'
                /\ helpers'[k] # helpers[k] =>
                      /\ get_last'.force
                      /\ get_last'.key = k
                      /\ get_last'.constructed
                      /\ get_last'.id = helpers'[k]
           /\ (~get_last'.force /\ get_last'.key \in DOMAIN helpers) =>
                /\ get_last'.ret = "instance"
                /\ get_last'.id = helpers[get_last'.key]
                /\ instances' = instances
         ]_vars

\* A get without force-create answered from the cache with a handle that was
\* constructed for another url of the same base url.
C6_Witness ==
    /\ get_last.called
    /\ ~get_last.force
    /\ get_last.ret = "instance"
    /\ ~get_last.constructed
    /\ instances[get_last.id].url # get_last.url

\* C39: the handle that get(url, key=K, secret=S) returns for an s3 url (the
\* backend whose constructor takes the key and secret) was constructed with K
\* and S: a cache hit does not hand out a handle that was constructed with
\* other credentials for the same base url and thread.
C39_HandleBoundToCredentials ==
    (get_last.ret = "instance" /\ get_last.url.scheme = "s3" /\ get_last.creds # None)
        => instances[get_last.id].creds = get_last.creds

\* Whether the url's destination has missing or invalid credentials or
\* configuration, or a backend SDK that is not installed.
BrokenDestination(cfg, url) ==
    \/ url.scheme = "s3" /\ (~cfg.s3_key \/ ~cfg.sdk)
    \/ url.scheme = "azure" /\ (cfg.azure # "ok" \/ ~cfg.sdk)
    \/ url.scheme = "gs" /\ ~cfg.sdk

\* C7 (as claimed): get never raises, and for a destination with missing or
\* invalid credentials or configuration, or without its SDK, it returns None
\* and leaves the cache as it was.
C7_GetNeverRaises ==
    /\ [](get_last.ret # "raised")
    /\ [][ (get_last' # get_last /\ BrokenDestination(config, get_last'.url)) =>
               /\ get_last'.ret = "None"
               /\ helpers' = helpers
         ]_vars

\* Two threads with different idents never hold the same handle for a
\* destination, the handle a get returns was made by a thread with the
\* caller's ident, and without force-create a handle is constructed only for
\* a key for which none was constructed before.
OneHandlePerThread ==
    /\ [](\A k1, k2 \in DOMAIN helpers :
            (k1.base_url = k2.base_url /\ k1.thread # k2.thread) =>
                helpers[k1] # helpers[k2])
    /\ [](get_last.ret = "instance" =>
            instances[get_last.id].key.thread = get_last.thread)
    /\ [][ (instances' # instances /\ ~get_last'.force) =>
             \A i \in 1..Len(instances) : instances[i].key # get_last'.key ]_vars

\* C30 (as claimed): two live threads get different handles for the same
\* destination, a thread constructs a handle for a destination at most once
\* without force-create, and a handle is never handed to a thread other
\* than the very thread that created it.
C30_NeverHandedToAnotherThread ==
    /\ OneHandlePerThread
    /\ [](get_last.ret = "instance" =>
            /\ instances[get_last.id].key.thread = get_last.thread
            /\ instances[get_last.id].inc = get_last.inc)

\* C30 (amended): two threads that live at the same time get different
\* handles for the same destination, a thread constructs a handle for a
\* destination at most once without force-create, and a handle is handed
\* only to threads with the ident of the thread that created it, which are
\* that thread and the threads that were given its ident after it ended.
C30_HandlePerThreadIdent ==
    /\ OneHandlePerThread
    /\ [](get_last.ret = "instance" =>
            /\ instances[get_last.id].key.thread = get_last.thread
            /\ instances[get_last.id].inc <= get_last.inc)

\* Two threads hold different handles for the same destination and the last
\* get was answered from the cache.
C30_Witness ==
    /\ Len(instances) = 2
    /\ instances[1].key.base_url = instances[2].key.base_url
    /\ instances[1].key.thread # instances[2].key.thread
    /\ helpers[instances[1].key] = 1
    /\ helpers[instances[2].key] = 2
    /\ get_last.ret = "instance"
    /\ ~get_last.constructed
    /\ ~get_last.force

(***************************************************************************)
(* Claims about path substitution.                                         *)
(***************************************************************************)
\* C21 (as claimed): after any sequence of configuration loading,
\* add_path_substitution and clear_path_substitutions, every rule of the
\* registry has a non-empty registered_prefix, a non-empty local_prefix and
\* at most one of the two separator flags set.
C21_RulesWellFormed ==
    \A i \in 1..Len(path_substitutions) :
        /\ path_substitutions[i].registered_prefix # <<>>
        /\ path_substitutions[i].local_prefix # <<>>
        /\ ~(path_substitutions[i].replace_windows_sep
              /\ path_substitutions[i].replace_linux_sep)

\* C22: add_path_substitution with an empty registered_prefix, an empty
\* local_prefix or both separator flags raises UsageError and leaves the
\* registry as it was; every other call returns, and the registry is the
\* former one with exactly the new rule appended at its end.
C22_AddRejectsOrAppends ==
    [][ add_call'.called =>
          LET c == add_call'
          IN  IF \/ c.registered_prefix = <<>>
                 \/ c.local_prefix = <<>>
                 \/ c.replace_windows_sep /\ c.replace_linux_sep
              THEN /\ c.ret = "UsageError"
                   /\ path_substitutions' = path_substitutions
              ELSE /\ c.ret = "None"
                   /\ path_substitutions' =
                        path_substitutions \o
                          << PathSubstitutionRule(c.registered_prefix, c.local_prefix,
                                                  c.replace_windows_sep,
                                                  c.replace_linux_sep) >>
      ]_vars

\* A call with both separator flags and two non-empty prefixes was rejected
\* while the registry held a rule.
C22_Witness ==
    /\ add_call.called
    /\ add_call.ret = "UsageError"
    /\ add_call.registered_prefix # <<>>
    /\ add_call.local_prefix # <<>>
    /\ path_substitutions # <<>>

CanonCalled == canon_url # NotCalled

\* The rules whose registered_prefix is a prefix of the url.
MatchingRules(rules, url) ==
    {i \in 1..Len(rules) : StartsWith(url, rules[i].registered_prefix)}

\* The url with the registered prefix cut off.
RestOf(rule, url) == StrFrom(url, Len(rule.registered_prefix))

\* The separator a rule is flagged to translate ("" when it has no flag).
FlaggedSep(rule) ==
    IF rule.replace_windows_sep THEN "\\"
    ELSE IF rule.replace_linux_sep THEN "/" ELSE ""

\* local_prefix + T(rest), written character by character.
IsSubstituted(out, rule, url, ossep) ==
    LET loc  == rule.local_prefix
        rest == RestOf(rule, url)
    IN  /\ Len(out) = Len(loc) + Len(rest)
        /\ \A k \in 1..Len(loc) : out[k] = loc[k]
        /\ \A k \in 1..Len(rest) :
               out[Len(loc) + k] =
                   IF rest[k] = FlaggedSep(rule) THEN ossep ELSE rest[k]

\* C8: _canonize_url applies only the first rule, in registration order,
\* whose registered_prefix the url starts with, and applies it once: the
\* result is that one substitution of the original url, whatever rules the
\* result itself would match; with no matching rule the url is returned
\* unchanged.
C8_FirstMatchOnce ==
    CanonCalled =>
        LET m == MatchingRules(path_substitutions, canon_url)
        IN  IF m = {} THEN canon_out = canon_url
            ELSE IsSubstituted(canon_out, path_substitutions[Min(m)],
                               canon_url, OsSep(os_name))

\* A call where two rules match the url and the result of the first one is
\* itself matched by a rule.
C8_Witness ==
    /\ CanonCalled
    /\ Cardinality(MatchingRules(path_substitutions, canon_url)) >= 2
    /\ MatchingRules(path_substitutions, canon_out) # {}
    /\ canon_out # canon_url

\* C9: for a matching rule and url = registered_prefix + rest the result
\* starts with local_prefix, character for character, and continues with
\* rest in which only the flagged separator is replaced by os.sep.
C9_PrefixKeptRestTranslated ==
    CanonCalled =>
        \A i \in MatchingRules(path_substitutions, canon_url) :
            i = Min(MatchingRules(path_substitutions, canon_url)) =>
                LET rule == path_substitutions[i]
                    loc  == rule.local_prefix
                    rest == RestOf(rule, canon_url)
                IN  /\ StrUpTo(canon_out, Len(loc)) = loc
                    /\ StrFrom(canon_out, Len(loc)) =
                         IF FlaggedSep(rule) = "" THEN rest
                         ELSE StrReplaceAll(rest, FlaggedSep(rule), OsSep(os_name))

\* A rule with a separator flag is applied, its local_prefix holds the
\* flagged separator, which differs from os.sep, and so does the rest.
C9_Witness ==
    /\ CanonCalled
    /\ \E i \in MatchingRules(path_substitutions, canon_url) :
          /\ i = Min(MatchingRules(path_substitutions, canon_url))
          /\ FlaggedSep(path_substitutions[i]) # ""
          /\ FlaggedSep(path_substitutions[i]) # OsSep(os_name)
          /\ \E k \in 1..Len(path_substitutions[i].local_prefix) :
                path_substitutions[i].local_prefix[k] = FlaggedSep(path_substitutions[i])
          /\ \E k \in 1..Len(RestOf(path_substitutions[i], canon_url)) :
                RestOf(path_substitutions[i], canon_url)[k] = FlaggedSep(path_substitutions[i])

(***************************************************************************)
(* Claims about asynchronous uploads.                                      *)
(***************************************************************************)
\* The run of task id, if the worker has begun one.
RunsOf(id) == {k \in 1..Len(pool_runs) : pool_runs[k].id = id}

\* C23: every upload submitted with async_enable is run by the worker at
\* most once, with the source path, destination, extra, callback and retries
\* of its submission; a completed result is the destination url or the
\* error of the upload's last attempt; and every submitted upload is
\* eventually run and its result completed.
C23_AsyncExactlyOnce ==
    /\ [](\A id \in 1..Len(async_tasks) :
            /\ Cardinality(RunsOf(id)) <= 1
            /\ \A k \in RunsOf(id) : pool_runs[k].data = async_tasks[id]
            /\ pool_results[id] # NoReturn =>
                  /\ Cardinality(RunsOf(id)) = 1
                  /\ \/ pool_results[id] = Returned(async_tasks[id].dest_path)
                     \/ \E e \in 1..Max(1, async_tasks[id].retries) :
                            pool_results[id] = Raised(e))
    /\ [](pool_current = 0 /\ pool_runs # <<>> =>
            LET id == pool_runs[Len(pool_runs)].id
            IN  /\ pool_results[id] = up_ret
                /\ Len(up_attempts) >= 1
                /\ IF up_attempts[Len(up_attempts)].raised
                   THEN up_ret = Raised(Len(up_attempts))
                   ELSE up_ret = Returned(async_tasks[id].dest_path))
    /\ \A id \in 1..MaxTasks :
          (Len(async_tasks) >= id) ~>
              (Len(pool_results) >= id /\ pool_results[id] # NoReturn)

\* Two uploads were submitted and both results are complete, one with the
\* destination url and one with the error of the last of several attempts.
C23_Witness ==
    /\ Len(async_tasks) = 2
    /\ pool_current = 0
    /\ \E i, j \in 1..2 :
          /\ pool_results[i].kind = "returned"
          /\ pool_results[j].kind = "raised"
          /\ pool_results[j].ex > 1

\* The uploads the worker has begun and not completed.
Executing ==
    {id \in 1..Len(async_tasks) : RunsOf(id) # {} /\ pool_results[id] = NoReturn}

\* C31: at any moment at most PoolWidth (one) async uploads are being
\* executed, whatever the number of submitted uploads, and the uploads begin
\* execution in the order of their submission: the k-th upload begun is the
\* k-th upload submitted.
C31_OneAtATimeInOrder ==
    /\ Cardinality(Executing) <= PoolWidth
    /\ \A k \in 1..Len(pool_runs) : pool_runs[k].id = k

\* The second upload submitted is being transferred after the first one was
\* completed, both having been submitted.
C31_Witness ==
    /\ Len(async_tasks) >= 2
    /\ pool_current = 2
    /\ up_attempts # <<>>
    /\ pool_results[1] # NoReturn

(***************************************************************************)
(* Claims about terminate_uploads.                                         *)
(***************************************************************************)
RECURSIVE SumElapsed(_, _)
\* The time the first k joins took.
SumElapsed(joins, k) ==
    IF k = 0 THEN 0 ELSE SumElapsed(joins, k - 1) + joins[k].elapsed

\* The threads joined so far, in the order of the joins.
JoinedThreads == [k \in 1..Len(tu_joins) |-> tu_joins[k].thread]

\* Each join is given what is left of the timeout after the earlier joins,
\* the joins never take more than the timeout together, and after a join
\* that used the budget up the later ones do not wait.
SharedBudget ==
    /\ terminate
    /\ \A k \in 1..Len(tu_joins) :
          /\ tu_joins[k].timeout = tu_timeout - SumElapsed(tu_joins, k - 1)
          /\ SumElapsed(tu_joins, k - 1) = tu_timeout => tu_joins[k].elapsed = 0
    /\ SumElapsed(tu_joins, Len(tu_joins)) <= tu_timeout

\* C24 (as claimed): terminate_uploads(force=false, timeout=T) sets the flag
\* and joins the tracked threads in the order of their registration under
\* one shared budget.
C24_JoinsInRegistrationOrder ==
    (tu_pc \in {"joining", "done"} /\ ~tu_force) =>
        /\ SharedBudget
        /\ JoinedThreads = SubSeq(thread_reg, 1, Len(tu_joins))

\* C24 (amended): terminate_uploads(force=false, timeout=T) sets the flag
\* and joins every tracked thread once, in the iteration order of the set,
\* under one shared budget: each join is given what is left of T after the
\* earlier joins, the joins take at most T together, and after a thread that
\* used the budget up the later joins do not wait.
C24_SharedBudget ==
    (tu_pc \in {"joining", "done"} /\ ~tu_force) =>
        /\ SharedBudget
        /\ \A j, k \in 1..Len(tu_joins) :
              tu_joins[j].thread = tu_joins[k].thread => j = k
        /\ {tu_joins[k].thread : k \in 1..Len(tu_joins)} \cup tu_todo
              = async_upload_threads
        /\ tu_pc = "done" => tu_todo = {}

\* The first join ran into the timeout with its thread still running, and
\* the second thread, running as well, was joined without a wait.
C24_Witness ==
    /\ tu_pc = "done"
    /\ ~tu_force
    /\ Len(tu_joins) = 2
    /\ tu_joins[1].elapsed = tu_timeout
    /\ tu_joins[1].running
    /\ tu_joins[2].timeout = 0
    /\ tu_joins[2].running

\* C25: terminate_uploads(force=true) returns without setting the flag and
\* without a join, and leaves the running and queued uploads, the threads
\* and the registry as they were.
C25_ForceReturnsAtOnce ==
    [][ (tu_pc = "idle" /\ tu_pc' # "idle" /\ tu_force') =>
          /\ tu_pc' = "done"
          /\ tu_joins' = <<>>
          /\ UNCHANGED <<terminate, async_upload_threads, thread_reg, thread_work,
                         asyncVars, uploadVars, remote>>
      ]_vars

\* terminate_uploads(force=true) has returned while an upload runs, another
\* is queued, a tracked thread runs and the flag is not set.
C25_Witness ==
    /\ tu_pc = "done"
    /\ tu_force
    /\ ~terminate
    /\ pool_current # 0
    /\ pool_queue # <<>>
    /\ \E t \in async_upload_threads : thread_work[t] > 0

\* C32: the thread that is executing an async upload is a member of
\* _async_upload_threads, the set of threads terminate_uploads(force=False)
\* joins.
C32_WorkerIsRegistered ==
    pool_current # 0 => PoolWorker \in async_upload_threads

\* C33: an async upload that the worker takes from the queue after
\* terminate_uploads(force=False) has set _terminate makes no transfer
\* attempt, and an upload the worker is executing is given up only by
\* completing its result with what _do_async_upload returned or raised.
C33_CancelObserved ==
    /\ [](pool_runs # <<>> /\ pool_runs[Len(pool_runs)].terminate =>
             up_attempts = <<>>)
    /\ [][pool_current # 0 /\ pool_current' # pool_current =>
             /\ up_pc \in {"returned", "raised"}
             /\ pool_results'[pool_current] = up_ret]_vars

(***************************************************************************)
(* Claims about _Stream.                                                   *)
(***************************************************************************)
\* The results of the reads so far, one after the other.
ReadSoFar == Flatten([k \in 1..Len(rd_log) |-> rd_log[k].ret])

\* The bytes the stream holds: in the hand of a read under way, left over,
\* and queued.
HeldBytes ==
    (IF rd_pc = "loop" THEN rd_data ELSE <<>>)
        \o (IF st_leftover = NoLeftover THEN <<>> ELSE st_leftover)
        \o Flatten(st_buffer)

\* C26: under any interleaving of a producer's write and close calls with a
\* consumer's read calls, the results of the successive reads followed by
\* the bytes the pipe still holds are the written chunks in write order (no
\* byte lost, duplicated or reordered); read(size) returns at most size
\* bytes, and fewer only when it met the end of the closed stream; and what
\* a read left beyond size comes first in the next read.
C26_PipeKeepsBytes ==
    st_iter = NoIter =>
        /\ ReadSoFar \o HeldBytes = st_written
        /\ \A k \in 1..Len(rd_log) :
              LET r == rd_log[k]
              IN  /\ ~r.size.none =>
                        /\ Len(r.ret) <= r.size.n
                        /\ Len(r.ret) < r.size.n => r.ended
                  /\ r.start.leftover # NoLeftover =>
                        IF ~r.size.none /\ Len(r.start.leftover) >= r.size.n
                        THEN r.ret = StrUpTo(r.start.leftover, r.size.n)
                        ELSE StartsWith(r.ret, r.start.leftover)

\* A read joined two chunks and kept a remainder, and the following read
\* came back short with the remainder at the end of the closed stream.
C26_Witness ==
    /\ st_iter = NoIter
    /\ Len(rd_log) = 2
    /\ rd_log[1].ret = <<"x", "y">>
    /\ rd_log[2].start.leftover = <<"x">>
    /\ rd_log[2].ret = <<"x">>
    /\ rd_log[2].ended
    /\ rd_log[2].size = Size(2)

\* C27 (as claimed): the number of queued chunks stays below the number of
\* chunks the producer writes: at a fixed capacity write waits until the
\* consumer has removed a chunk.
C27_BoundedBuffer == Len(st_buffer) < MaxWrites

\* C28 (as claimed): once the stream has been closed (or its iterator
\* exhausted) and drained, every later read returns empty bytes, also after
\* a further write.
C28_CloseIsTerminal ==
    \A k \in 1..Len(rd_log) : rd_log[k].start.drained => rd_log[k].ret = <<>>

\* The producer has closed the stream, or the iterator is at its end or
\* raises an error.
SourceFinished ==
    \/ st_closed
    \/ st_iter # NoIter /\ (st_iter = <<>> \/ Head(st_iter) \in IterFailures)

\* C34: a read call under way when the stream has been closed, or when its
\* iterator is exhausted or raises an error, eventually returns.
C34_ReadReturns == (rd_pc # "idle" /\ SourceFinished) ~> (rd_pc = "idle")

(***************************************************************************)
(* Claims about the container cache.                                       *)
(***************************************************************************)
\* C29 (as claimed): under concurrent first access by several threads a
\* driver's container cache never constructs two containers for the same
\* container name.
C29_OneContainerPerName ==
    \A name \in ContainerNames :
        Cardinality({k \in 1..Len(gc_made) : gc_made[k] = name}) <= 1

\* C40: no step of a get_container call changes the configuration (its
\* retries) of a container that a get_container call has already returned
\* to the constructor of a handle.
C40_CachedConfigKept ==
    [][\A t \in Threads :
          gc_ret[t] # 0 => gc_config'[gc_ret[t]] = gc_config[gc_ret[t]]]_vars

=============================================================================
